---- MODULE Spec2Model ----
(***************************************************************************)
(* Model of the onemap RAS/OPT reconciliation pipeline:                    *)
(*   - the schedule resolver of app.py (cached RAS snapshots, /get_map,    *)
(*     get_vehicles_from_preloaded_ras and its inline vehicle id           *)
(*     normalisation),                                                     *)
(*   - the stop extraction of processing.py (process_optdump),             *)
(*   - the exception annotation of processing.py                           *)
(*     (annotate_log_records_with_exceptions).                             *)
(* Text is modelled as sequences of one-character strings, so that strip,  *)
(* lower, upper, endswith, re.sub and substring tests are computed.        *)
(***************************************************************************)
EXTENDS Integers, Sequences, FiniteSets, TLC

(***************************************************************************)
(* Text helpers (Python str methods used by the code).                     *)
(***************************************************************************)
Digits == {"0", "1", "2", "3", "4", "5", "6", "7", "8", "9"}

UpperLetters ==
    <<"A", "B", "C", "D", "E", "G", "H", "I", "L", "M", "N", "O", "P", "R", "S", "T", "V", "Y">>

LowerLetters ==
    <<"a", "b", "c", "d", "e", "g", "h", "i", "l", "m", "n", "o", "p", "r", "s", "t", "v", "y">>

LowerChar(c) ==
    IF \E i \in 1..Len(UpperLetters) : UpperLetters[i] = c
    THEN LowerLetters[CHOOSE i \in 1..Len(UpperLetters) : UpperLetters[i] = c]
    ELSE c

UpperChar(c) ==
    IF \E i \in 1..Len(LowerLetters) : LowerLetters[i] = c
    THEN UpperLetters[CHOOSE i \in 1..Len(LowerLetters) : LowerLetters[i] = c]
    ELSE c

Lower(s) == [i \in 1..Len(s) |-> LowerChar(s[i])]

Upper(s) == [i \in 1..Len(s) |-> UpperChar(s[i])]

RECURSIVE LStrip(_)
LStrip(s) == IF s # <<>> /\ s[1] = " " THEN LStrip(Tail(s)) ELSE s

RECURSIVE RStrip(_)
RStrip(s) == IF s # <<>> /\ s[Len(s)] = " " THEN RStrip(SubSeq(s, 1, Len(s) - 1)) ELSE s

Strip(s) == RStrip(LStrip(s))

EndsWith(s, suf) ==
    /\ Len(s) >= Len(suf)
    /\ SubSeq(s, Len(s) - Len(suf) + 1, Len(s)) = suf

Contains(s, sub) ==
    \E i \in 1..(Len(s) - Len(sub) + 1) : SubSeq(s, i, i + Len(sub) - 1) = sub

IsDigitChar(c) == c \in Digits

\* str.isdigit(): false on the empty string
IsDigit(s) == Len(s) > 0 /\ \A i \in 1..Len(s) : s[i] \in Digits

\* re.sub(r'\D', '', s)
RemoveNonDigits(s) == SelectSeq(s, IsDigitChar)

\* all texts over an alphabet, up to a length
RECURSIVE TextsUpTo(_, _)
TextsUpTo(alphabet, n) ==
    IF n = 0 THEN {<<>>}
    ELSE LET shorter == TextsUpTo(alphabet, n - 1)
         IN  shorter \cup {Append(s, c) : s \in shorter, c \in alphabet}

(***************************************************************************)
(* Cells of a cached RAS frame.  The fetch jobs run                        *)
(*   temp_df.astype(str).replace(['None','','#N/A','nan','NaT'], pd.NA)    *)
(* so a cell is either pd.NA or a text outside that list.                  *)
(***************************************************************************)
NA == [na |-> TRUE, s |-> <<>>]

Txt(s) == [na |-> FALSE, s |-> s]

NaTexts ==
    { <<"N", "o", "n", "e">>, <<>>, <<"#", "N", "/", "A">>, <<"n", "a", "n">>, <<"N", "a", "T">> }

CacheCell(text) == IF text \in NaTexts THEN NA ELSE Txt(text)

\* str(value) of a cell: str(pd.NA) is '<NA>'
StrOf(cell) == IF cell.na THEN <<"<", "N", "A", ">">> ELSE cell.s

(***************************************************************************)
(* Vehicle id normalisation, inline in get_vehicles_from_preloaded_ras.    *)
(***************************************************************************)
FleetPrefix == <<"N", "T">>

VehicleSentinels ==
    { <<"n", "a", "n">>, <<>>, <<"n", "o", "n", "e">>, <<"#", "n", "/", "a">>, <<"n", "a">> }

\* vehicle_number = str(row_series['Vehicle#']).strip()
VehicleNumber(cell) == Strip(StrOf(cell))

\* if not vehicle_number or vehicle_number.lower() in (...): continue
VehicleSkipped(vehicle_number) ==
    vehicle_number = <<>> \/ Lower(vehicle_number) \in VehicleSentinels

StripDotZero(v) == IF EndsWith(v, <<".", "0">>) THEN SubSeq(v, 1, Len(v) - 2) ELSE v

\* the 3-digit padding left out
PadThree_NoPad(v) == v

PadThree(v) == IF Len(v) = 3 /\ IsDigit(v) THEN <<"0">> \o v ELSE v

PrefixFour(v) == IF Len(v) = 4 /\ IsDigit(v) THEN FleetPrefix \o v ELSE v

VehicleFull(vehicle_number) ==
    PrefixFour(PadThree(RemoveNonDigits(StripDotZero(vehicle_number))))

(***************************************************************************)
(* Dates.  A date is its proleptic Gregorian ordinal (date.toordinal()),   *)
(* 738886 being Monday 2024-01-01.  The text of a date cell is a record:   *)
(*   fmt "wdd"   "<Weekday>-<day of month>"   (wd, dom)                    *)
(*   fmt "mdy"   "MM/DD/YYYY"                 (day)                        *)
(*   fmt "iso"   "YYYY-MM-DD"                 (day)                        *)
(*   fmt "mdyt"  "MM/DD/YYYY HH:MM:SS"        (day, tod > 0)               *)
(*   fmt "junk"  a text no date parser accepts                             *)
(*   fmt "empty" the empty text, fmt "na" pd.NA                            *)
(* pad is TRUE when the text carries surrounding blanks.                   *)
(***************************************************************************)
\* datetime.date.weekday(): Monday is 0
Weekday(d) == (d + 6) % 7

\* isoweekday() (Monday is 1) taken for weekday()
CurrentMonday_IsoWeekday(today) == today - (Weekday(today) + 1)

\* today - datetime.timedelta(days=today.weekday())
CurrentMonday(today) == today - Weekday(today)

\* day of month, for the dates of the model (Dec 2023, Jan 2024, 1500-01-01)
DayOfMonth(d) ==
    CASE d >= 738886 /\ d <= 738916 -> d - 738885
      [] d >= 738855 /\ d <= 738885 -> d - 738854
      [] OTHER -> 1

DateText(fmt, day, tod, wd, dom, pad) ==
    [fmt |-> fmt, day |-> day, tod |-> tod, wd |-> wd, dom |-> dom, pad |-> pad]

NaDate == DateText("na", 0, 0, 0, 0, FALSE)

EmptyDate == DateText("empty", 0, 0, 0, 0, FALSE)

JunkDate == DateText("junk", 0, 0, 0, 0, FALSE)

\* date_obj.strftime("%A-%-d")
FormatWeekdayDay(d) == DateText("wdd", 0, 0, Weekday(d), DayOfMonth(d), FALSE)

\* date_obj.strftime("%m/%d/%Y")
FormatMDY(d) == DateText("mdy", d, 0, 0, 0, FALSE)

FormatISO(d) == DateText("iso", d, 0, 0, 0, FALSE)

FormatMDYTime(d, tod) == DateText("mdyt", d, tod, 0, 0, FALSE)

Padded(t) == [t EXCEPT !.pad = TRUE]

\* .str.strip() on a date text
StripDate(t) == [t EXCEPT !.pad = FALSE]

\* replace(['None', '', '#N/A', 'nan', 'NaT'], pd.NA) on a date cell
CacheDateCell(t) == IF t.fmt = "empty" THEN NaDate ELSE t

\* first day pandas can represent at midnight (Timestamp.min is 1677-09-21 00:12:43)
TimestampMinDay == 612412

\* last day pandas can represent (Timestamp.max is 2262-04-11 23:47:16)
TimestampMaxDay == 825914

NaT == [ok |-> FALSE, day |-> 0, tod |-> 0]

\* pd.to_datetime(text, errors='coerce') of one value
ToDatetime(t) ==
    IF /\ t.fmt \in {"mdy", "iso", "mdyt"}
       /\ t.day >= TimestampMinDay
       /\ t.day <= TimestampMaxDay
    THEN [ok |-> TRUE, day |-> t.day, tod |-> t.tod]
    ELSE NaT

(***************************************************************************)
(* Data frames: the set of column names and the rows, each row carrying    *)
(* its index label idx.                                                    *)
(***************************************************************************)
\* pd.DataFrame()
EmptyFrame == [cols |-> {}, rows |-> <<>>]

\* DataFrame.empty
IsEmpty(df) == df.cols = {} \/ df.rows = <<>>

HISTORICAL_COLS_TO_KEEP ==
    {"Route", "Date", "DateID", "Vehicle#", "Trip Type", "GM | Yard", "Active/Inactive",
     "Name", "Phone"}

\* one fetched row becomes a cached row: astype(str).replace([...], pd.NA)
CacheRow(r, i) ==
    [idx |-> i - 1,
     Date |-> CacheDateCell(r.Date),
     DateID |-> CacheDateCell(r.DateID),
     Route |-> CacheCell(r.Route),
     TripType |-> CacheCell(r.TripType),
     Vehicle |-> CacheCell(r.Vehicle),
     Name |-> CacheCell(r.Name),
     Phone |-> CacheCell(r.Phone)]

\* the frame fetch_and_cache_current_ras publishes for a sheet
LoadCurrent(sheet) ==
    IF sheet.cols = {} THEN EmptyFrame
    ELSE [cols |-> sheet.cols,
          rows |-> [i \in 1..Len(sheet.rows) |-> CacheRow(sheet.rows[i], i)]]

\* the frame fetch_and_cache_historical_ras publishes for a sheet
LoadHistorical(sheet) ==
    IF sheet.cols = {} THEN EmptyFrame
    ELSE [cols |-> IF HISTORICAL_COLS_TO_KEEP \subseteq sheet.cols
                   THEN HISTORICAL_COLS_TO_KEEP ELSE sheet.cols,
          rows |-> [i \in 1..Len(sheet.rows) |-> CacheRow(sheet.rows[i], i)]]

(***************************************************************************)
(* get_vehicles_from_preloaded_ras                                         *)
(***************************************************************************)
EmptyDict == [k \in {} |-> <<>>]

\* d[k] = v
Put(d, k, v) == [x \in (DOMAIN d) \cup {k} |-> IF x = k THEN v ELSE d[x]]

\* is_current_week = (date_obj >= current_monday_local)
IsCurrentWeek(date_obj, today) == date_obj >= CurrentMonday(today)

DateFilterCol(is_current_week) == IF is_current_week THEN "Date" ELSE "DateID"

\* rasdf[rasdf['Date'].astype(str).str.strip() == date_filter_value]
CurrentDateFilter(rasdf, date_obj) ==
    [cols |-> rasdf.cols,
     rows |-> SelectSeq(rasdf.rows,
                        LAMBDA r : StripDate(r.Date) = FormatWeekdayDay(date_obj))]

\* the parsed timestamp compared with midnight of the target, .dt.date left out
SameCalendarDate_WithTime(parsed_date, target_date_obj) ==
    parsed_date.day = target_date_obj /\ parsed_date.tod = 0

\* df_to_filter['parsed_date'].dt.date == target_date_obj
SameCalendarDate(parsed_date, target_date_obj) == parsed_date.day = target_date_obj

\* what the historical branch yields when no DateID parses
NoValidDates(rasdf, date_obj) == EmptyFrame

\* the historical branch: to_datetime, dropna, compare .dt.date
HistoricalDateFilter(rasdf, date_obj) ==
    LET df_to_filter == SelectSeq(rasdf.rows, LAMBDA r : ToDatetime(r.DateID).ok)
        matching_indices ==
            { df_to_filter[i].idx : i \in
                { j \in 1..Len(df_to_filter) :
                    SameCalendarDate(ToDatetime(df_to_filter[j].DateID), date_obj) } }
    IN  IF df_to_filter = <<>> THEN NoValidDates(rasdf, date_obj)
        ELSE [cols |-> rasdf.cols,
              rows |-> SelectSeq(rasdf.rows, LAMBDA r : r.idx \in matching_indices)]

\* the date filter without the test for the date column: a frame lacking the
\* column is passed on unfiltered
DateFilter_NoColumnTest(rasdf, is_current_week, date_obj) ==
    IF DateFilterCol(is_current_week) \notin rasdf.cols THEN rasdf
    ELSE IF is_current_week THEN CurrentDateFilter(rasdf, date_obj)
    ELSE HistoricalDateFilter(rasdf, date_obj)

DateFilter(rasdf, is_current_week, date_obj) ==
    IF DateFilterCol(is_current_week) \notin rasdf.cols THEN EmptyFrame
    ELSE IF is_current_week THEN CurrentDateFilter(rasdf, date_obj)
    ELSE HistoricalDateFilter(rasdf, date_obj)

\* filtered_rasdf['Route'].astype(str).str.strip().str.upper() == route_value_stripped.upper()
RouteMatches(cell, route_input) == Upper(Strip(StrOf(cell))) = Upper(Strip(route_input))

RouteFilter(filtered_rasdf, route_input) ==
    IF "Route" \notin filtered_rasdf.cols THEN EmptyFrame
    ELSE [cols |-> filtered_rasdf.cols,
          rows |-> SelectSeq(filtered_rasdf.rows, LAMBDA r : RouteMatches(r.Route, route_input))]

NoneValue == <<"N", "o", "n", "e", "!">>

\* driver_name from the first matched row
DriverName(first_row, cols) ==
    IF "Name" \in cols /\ ~first_row.Name.na
    THEN LET n == Strip(first_row.Name.s)
         IN  IF n = <<>> \/ Lower(n) = <<"n", "a", "n">> THEN NoneValue ELSE n
    ELSE NoneValue

\* driver_phone from the first matched row, digits only
DriverPhone(first_row, cols) ==
    IF "Phone" \in cols /\ ~first_row.Phone.na
    THEN LET p == RemoveNonDigits(Strip(first_row.Phone.s))
         IN  IF p = <<>> THEN NoneValue ELSE p
    ELSE NoneValue

\* am_pm = str(row_series['Trip Type']).strip().upper()
TripType(cell) == Upper(Strip(StrOf(cell)))

\* "else" in place of "elif am_pm == 'PM'"
ProcessRow_ElseIsPM(buses, row) ==
    LET route == Strip(StrOf(row.Route))
        am_pm == TripType(row.TripType)
        vehicle_number == VehicleNumber(row.Vehicle)
    IN  IF VehicleSkipped(vehicle_number) THEN buses
        ELSE IF route = <<>> THEN buses
        ELSE IF am_pm = <<"A", "M">>
             THEN [buses EXCEPT !.am = Put(buses.am, route, VehicleFull(vehicle_number))]
        ELSE [buses EXCEPT !.pm = Put(buses.pm, route, VehicleFull(vehicle_number))]

\* one iteration of "for _, row_series in final_filtered.iterrows()"
ProcessRow(buses, row) ==
    LET route == Strip(StrOf(row.Route))
        am_pm == TripType(row.TripType)
        vehicle_number == VehicleNumber(row.Vehicle)
    IN  IF VehicleSkipped(vehicle_number) THEN buses
        ELSE IF route = <<>> THEN buses
        ELSE IF am_pm = <<"A", "M">>
             THEN [buses EXCEPT !.am = Put(buses.am, route, VehicleFull(vehicle_number))]
        ELSE IF am_pm = <<"P", "M">>
             THEN [buses EXCEPT !.pm = Put(buses.pm, route, VehicleFull(vehicle_number))]
        ELSE buses

RECURSIVE ProcessRows(_, _)
ProcessRows(buses, rows) ==
    IF rows = <<>> THEN buses
    ELSE ProcessRows(ProcessRow(buses, Head(rows)), Tail(rows))

NoBuses == [am |-> EmptyDict, pm |-> EmptyDict]

ProcessVehicles(final_filtered) ==
    IF {"Route", "Trip Type", "Vehicle#"} \subseteq final_filtered.cols
    THEN ProcessRows(NoBuses, final_filtered.rows)
    ELSE NoBuses

\* the whole function, for a non-empty rasdf
GetVehiclesFromPreloadedRas(rasdf, date_obj, route_input, today) ==
    LET is_current_week == IsCurrentWeek(date_obj, today)
        filtered_rasdf == DateFilter(rasdf, is_current_week, date_obj)
        final_filtered == IF IsEmpty(filtered_rasdf) THEN filtered_rasdf
                          ELSE RouteFilter(filtered_rasdf, route_input)
        buses == IF IsEmpty(final_filtered) THEN NoBuses ELSE ProcessVehicles(final_filtered)
    IN  [is_current_week |-> IF is_current_week THEN "current" ELSE "historical",
         date_filter_col |-> DateFilterCol(is_current_week),
         filtered_rasdf |-> filtered_rasdf,
         am_buses |-> buses.am,
         pm_buses |-> buses.pm,
         filtered_data |-> final_filtered,
         driver_name |-> IF IsEmpty(final_filtered) THEN NoneValue
                         ELSE DriverName(final_filtered.rows[1], final_filtered.cols),
         driver_phone |-> IF IsEmpty(final_filtered) THEN NoneValue
                          ELSE DriverPhone(final_filtered.rows[1], final_filtered.cols)]

\* d.get(k): the value, or None
DictGet(d, k) == IF k \in DOMAIN d THEN d[k] ELSE NoneValue

\* default_return, and the values get_map_data keeps when it does not call the resolver
DefaultReturn ==
    [is_current_week |-> "unset",
     date_filter_col |-> "unset",
     filtered_rasdf |-> EmptyFrame,
     am_buses |-> EmptyDict,
     pm_buses |-> EmptyDict,
     filtered_data |-> EmptyFrame,
     driver_name |-> NoneValue,
     driver_phone |-> NoneValue]

(***************************************************************************)
(* parse_timestamp.  A timestamp input is a record: kind "utc" (ISO text   *)
(* with Z or +00:00), "naive" (ISO text without offset), "offset" (ISO     *)
(* text with another offset, off), or "none", "blank", "junk" (None, a     *)
(* blank text, a text no parser accepts).  t is the wall-clock reading.    *)
(***************************************************************************)
TsInput(kind, t, off) == [kind |-> kind, t |-> t, off |-> off]

NoTimestamp == [ok |-> FALSE, t |-> 0]

ParseTimestamp(ts_input) ==
    CASE ts_input.kind \in {"utc", "naive"} -> [ok |-> TRUE, t |-> ts_input.t]
      [] ts_input.kind = "offset" -> [ok |-> TRUE, t |-> ts_input.t - ts_input.off]
      [] OTHER -> NoTimestamp

(***************************************************************************)
(* annotate_log_records_with_exceptions                                    *)
(***************************************************************************)
Dash == <<"-", "-">>

\* the value of exception_details: '--' or the formatted text of an exception
DashDetails == [rule |-> Dash, duration |-> 0, has_max |-> FALSE, max_mph |-> 0]

\* a speed property: kind "num", "str", "none" or "nan"
SpeedInput(kind, v) == [kind |-> kind, v |-> v]

\* float(raw_speed), 0.0 when None, a str or NaN
SpeedKph(speed) == IF speed.kind = "num" THEN speed.v ELSE 0

Feature(dateTime, speed) ==
    [dateTime |-> dateTime, speed |-> speed, has_exc |-> FALSE,
     exception_type |-> <<>>, exception_details |-> DashDetails]

\* feature['properties']['exception_type'] = '--'; ...['exception_details'] = '--'
WithDefault(feature) ==
    [feature EXCEPT !.has_exc = TRUE, !.exception_type = Dash, !.exception_details = DashDetails]

AllDefault(log_records) == [i \in 1..Len(log_records) |-> WithDefault(log_records[i])]

\* step 1: the records whose timestamp parses, with their index
RECURSIVE ParsedLogsFrom(_, _)
ParsedLogsFrom(log_records, i) ==
    IF i > Len(log_records) THEN <<>>
    ELSE LET log_dt == ParseTimestamp(log_records[i].dateTime)
             rest == ParsedLogsFrom(log_records, i + 1)
         IN  IF log_dt.ok
             THEN <<[index |-> i, dt |-> log_dt.t, speed_kph |-> SpeedKph(log_records[i].speed)]>>
                      \o rest
             ELSE rest

ParsedLogs(log_records) == ParsedLogsFrom(log_records, 1)

MaxSpeedInit == -1

Max2(a, b) == IF a >= b THEN a ELSE b

\* start_dt <= log['dt'] <= end_dt
InWindow_UpperExclusive(start_dt, dt, end_dt) == start_dt <= dt /\ dt < end_dt

InWindow(start_dt, dt, end_dt) == start_dt <= dt /\ dt <= end_dt

\* the loop over parsed_logs of a speeding event
RECURSIVE MaxSpeedKph(_, _, _, _)
MaxSpeedKph(max_speed_kph, parsed_logs, start_dt, end_dt) ==
    IF parsed_logs = <<>> THEN max_speed_kph
    ELSE LET log == Head(parsed_logs)
         IN  MaxSpeedKph(IF InWindow(start_dt, log.dt, end_dt)
                         THEN Max2(max_speed_kph, log.speed_kph) ELSE max_speed_kph,
                         Tail(parsed_logs), start_dt, end_dt)

\* int(round(max_speed_kph * 0.621371)), for whole kph
MphOfKph(kph) == (kph * 621371 + 500000) \div 1000000

Speeding == <<"s", "p", "e", "e", "d", "i", "n", "g">>

IsSpeedingEvent(rule_name) == Contains(Lower(rule_name), Speeding)

\* duration_val when numeric, else (end_dt - start_dt).total_seconds()
DurationSec(duration_val, start_dt, end_dt) ==
    IF duration_val.kind = "num" THEN duration_val.v ELSE end_dt - start_dt

\* one raw exception, the bounds used as they are given
ProcessException_NoSwap(exc, parsed_logs) ==
    LET s == ParseTimestamp(exc.start_time)
        e == ParseTimestamp(exc.end_time)
        start_dt == s.t
        end_dt == e.t
        max_speed_kph ==
            IF IsSpeedingEvent(exc.rule_name)
            THEN MaxSpeedKph(MaxSpeedInit, parsed_logs, start_dt, end_dt)
            ELSE MaxSpeedInit
    IN  IF ~s.ok \/ ~e.ok THEN <<>>
        ELSE << [start |-> start_dt, end |-> end_dt, type |-> exc.rule_name,
                 details |->
                    [rule |-> exc.rule_name,
                     duration |-> DurationSec(exc.duration_s, start_dt, end_dt),
                     has_max |-> IsSpeedingEvent(exc.rule_name) /\ max_speed_kph >= 0,
                     max_mph |-> IF IsSpeedingEvent(exc.rule_name) /\ max_speed_kph >= 0
                                 THEN MphOfKph(max_speed_kph) ELSE 0]] >>

\* one raw exception: <<>> when it is skipped, else the processed exception
ProcessException(exc, parsed_logs) ==
    LET s == ParseTimestamp(exc.start_time)
        e == ParseTimestamp(exc.end_time)
        start_dt == IF s.t > e.t THEN e.t ELSE s.t
        end_dt == IF s.t > e.t THEN s.t ELSE e.t
        max_speed_kph ==
            IF IsSpeedingEvent(exc.rule_name)
            THEN MaxSpeedKph(MaxSpeedInit, parsed_logs, start_dt, end_dt)
            ELSE MaxSpeedInit
    IN  IF ~s.ok \/ ~e.ok THEN <<>>
        ELSE << [start |-> start_dt, end |-> end_dt, type |-> exc.rule_name,
                 details |->
                    [rule |-> exc.rule_name,
                     duration |-> DurationSec(exc.duration_s, start_dt, end_dt),
                     has_max |-> IsSpeedingEvent(exc.rule_name) /\ max_speed_kph >= 0,
                     max_mph |-> IF IsSpeedingEvent(exc.rule_name) /\ max_speed_kph >= 0
                                 THEN MphOfKph(max_speed_kph) ELSE 0]] >>

RECURSIVE ProcessedExceptions(_, _)
ProcessedExceptions(raw_excs, parsed_logs) ==
    IF raw_excs = <<>> THEN <<>>
    ELSE ProcessException(Head(raw_excs), parsed_logs)
            \o ProcessedExceptions(Tail(raw_excs), parsed_logs)

\* priorities of the annotation loop
Priority(type) ==
    LET exc_type_lower == Lower(type)
    IN  IF Contains(exc_type_lower, Speeding) THEN 2
        ELSE IF Contains(exc_type_lower, <<"i", "d", "l", "i", "n", "g">>)
                \/ Contains(exc_type_lower, <<"i", "d", "l", "e">>) THEN 0
        ELSE 1

\* every covering window replaces the match, priorities ignored
TakesOver_LastWins(matched_exception, exc) == TRUE

\* if new_priority > current_priority: matched_exception = exc
TakesOver(matched_exception, exc) ==
    Priority(exc.type) > (IF matched_exception = <<>> THEN -1
                          ELSE Priority(matched_exception[1].type))

\* "for exc in processed_exceptions", matched_exception is <<>> for None
RECURSIVE MatchedException(_, _, _)
MatchedException(matched_exception, excs, log_dt) ==
    IF excs = <<>> THEN matched_exception
    ELSE LET exc == Head(excs)
         IN  MatchedException(
                IF InWindow(exc.start, log_dt, exc.end) /\ TakesOver(matched_exception, exc)
                THEN <<exc>> ELSE matched_exception,
                Tail(excs), log_dt)

\* step 3 for one feature whose timestamp parsed
AnnotateFeature(feature, log_dt, excs) ==
    LET matched_exception == MatchedException(<<>>, excs, log_dt)
    IN  IF matched_exception = <<>> THEN WithDefault(feature)
        ELSE [feature EXCEPT !.has_exc = TRUE,
                             !.exception_type = matched_exception[1].type,
                             !.exception_details = matched_exception[1].details]

\* step 3 without the closing loop
AnnotateAll_NoClosingLoop(log_records, excs) ==
    [i \in 1..Len(log_records) |->
        LET log_dt == ParseTimestamp(log_records[i].dateTime)
        IN  IF log_dt.ok THEN AnnotateFeature(log_records[i], log_dt.t, excs)
            ELSE log_records[i]]

\* step 3 and the closing loop, over all features
AnnotateAll(log_records, excs) ==
    [i \in 1..Len(log_records) |->
        LET log_dt == ParseTimestamp(log_records[i].dateTime)
        IN  IF log_dt.ok THEN AnnotateFeature(log_records[i], log_dt.t, excs)
            ELSE IF log_records[i].has_exc THEN log_records[i]
            ELSE WithDefault(log_records[i])]

\* the list the function leaves in log_records_geojson (it annotates in place)
AnnotatedInPlace(log_records, raw_excs) ==
    IF log_records = <<>> THEN log_records
    ELSE IF raw_excs = <<>> THEN AllDefault(log_records)
    ELSE IF ParsedLogs(log_records) = <<>> THEN AllDefault(log_records)
    ELSE IF ProcessedExceptions(raw_excs, ParsedLogs(log_records)) = <<>>
         THEN AllDefault(log_records)
    ELSE AnnotateAll(log_records, ProcessedExceptions(raw_excs, ParsedLogs(log_records)))

(***************************************************************************)
(* process_optdump and process_am_pm.  The dump is a frame whose rows      *)
(* carry their index label idx (pd.DataFrame(all_rows) gives 0, 1, ...).   *)
(* A row has the texts route, am_pm, address, school (School_Code_&_Name), *)
(* the values pupil_lat, pupil_lon, seg_no, sess_beg ([kind, v]) and       *)
(* pupil_id_no ([na, v]).  The route column is always present (the query   *)
(* selects on it).                                                         *)
(***************************************************************************)
SchoolCol == "School_Code_&_Name"

OptCols ==
    {"route", "am_pm", "address", SchoolCol, "pupil_lat", "pupil_lon", "seg_no",
     "pupil_id_no", "sess_beg"}

\* order of the characters of the model's texts (code point order)
CharOrder ==
    <<" ", "0", "1", "2", "3", "4", "5", "6", "7", "8", "9">> \o UpperLetters \o LowerLetters

CharRank(c) ==
    IF \E i \in 1..Len(CharOrder) : CharOrder[i] = c
    THEN CHOOSE i \in 1..Len(CharOrder) : CharOrder[i] = c
    ELSE 0

\* a < b for str
TextLess(a, b) ==
    \E i \in 1..(Len(a) + 1) :
        /\ \A j \in 1..(i - 1) : j <= Len(b) /\ a[j] = b[j]
        /\ i <= Len(b)
        /\ (i > Len(a) \/ CharRank(a[i]) < CharRank(b[i]))

\* str.replace(sub, "")
RECURSIVE RemoveAll(_, _)
RemoveAll(s, sub) ==
    IF Len(s) < Len(sub) THEN s
    ELSE IF SubSeq(s, 1, Len(sub)) = sub THEN RemoveAll(SubSeq(s, Len(sub) + 1, Len(s)), sub)
    ELSE <<Head(s)>> \o RemoveAll(Tail(s), sub)

\* the rows of a list ordered by Less, equal rows keeping their order
Position(rows, i, Less(_, _)) ==
    Cardinality({j \in 1..Len(rows) :
        Less(rows[j], rows[i]) \/ (~Less(rows[i], rows[j]) /\ j < i)}) + 1

SortedBy(rows, Less(_, _)) ==
    LET position == [i \in 1..Len(rows) |-> Position(rows, i, Less)]
    IN  [k \in 1..Len(rows) |-> rows[CHOOSE i \in 1..Len(rows) : position[i] = k]]

SeePattern == <<"S", "E", "E", " ", "O", "P", "E", "R", "A", "T", "I", "O", "N", "S">>

DismissPattern == <<"D", "I", "S", "M", "I", "S", "S">>

ArrivePattern == <<"A", "R", "R", "I", "V", "E">>

\* df['am_pm'].astype(str).str.upper() != 'PM ONLY' (AM), != 'AM ONLY' (PM)
InSession(row, session_type) ==
    Upper(row.am_pm) #
        (IF session_type = "AM" THEN <<"P", "M", " ", "O", "N", "L", "Y">>
         ELSE <<"A", "M", " ", "O", "N", "L", "Y">>)

\* str.contains(pattern, case=False)
ContainsNoCase(text, pattern) == Contains(Upper(text), pattern)

\* pd.to_numeric(errors='coerce') gave a number
IsNumber(value) == value.kind = "num"

\* pd.to_datetime(sess_beg, errors='coerce', format='%H:%M:%S').dt.time is not NaT
HasTime(row) == row.sess_beg.kind = "time"

\* the value of Pupil_Id_No compared as the sort and the duplicate test do
SamePupil(a, b) == (a.pupil_id_no.na /\ b.pupil_id_no.na) \/ a.pupil_id_no = b.pupil_id_no

PupilLess(a, b) ==
    ~a.pupil_id_no.na /\ (b.pupil_id_no.na \/ a.pupil_id_no.v < b.pupil_id_no.v)

\* the filters of lines 360-411 and the Sequence conversion of lines 427-431
FilteredRows(optdump, session_type) ==
    LET cols == optdump.cols
        Keep(row) ==
            /\ ("am_pm" \in cols => InSession(row, session_type))
            /\ ("address" \in cols => ~ContainsNoCase(row.address, SeePattern))
            /\ (SchoolCol \in cols => ~ContainsNoCase(row.school, DismissPattern))
            /\ IsNumber(row.pupil_lat) /\ IsNumber(row.pupil_lon)
            /\ ("seg_no" \in cols => IsNumber(row.seg_no))
    IN  SelectSeq(optdump.rows, Keep)

\* cols_present_for_dup_check
DupCols(cols) ==
    {"Route"} \cup (IF "pupil_id_no" \in cols THEN {"Pupil_Id_No"} ELSE {})
              \cup (IF SchoolCol \in cols THEN {SchoolCol} ELSE {})

\* drop_duplicates(keep="first") on the rows as they come, without the sort
Deduplicated_Unsorted(rows, cols) ==
    LET Same(a, b) ==
            /\ a.route = b.route
            /\ ("pupil_id_no" \in cols => SamePupil(a, b))
            /\ (SchoolCol \in cols => a.school = b.school)
        idxFirst == {rows[k].idx : k \in {k \in 1..Len(rows) :
                         \A j \in 1..(k - 1) : ~Same(rows[j], rows[k])}}
        First(row) == row.idx \in idxFirst
    IN  IF Cardinality(DupCols(cols)) > 1 THEN SelectSeq(rows, First) ELSE rows

\* df.sort_values(by=sort_cols).drop_duplicates(subset=..., keep="first")
Deduplicated(rows, cols) ==
    LET Less(a, b) ==
            \/ TextLess(a.route, b.route)
            \/ /\ a.route = b.route
               /\ \/ ("seg_no" \in cols /\ a.seg_no.v < b.seg_no.v)
                  \/ /\ ("seg_no" \in cols => a.seg_no.v = b.seg_no.v)
                     /\ "pupil_id_no" \in cols
                     /\ PupilLess(a, b)
        sorted == SortedBy(rows, Less)
        Same(a, b) ==
            /\ a.route = b.route
            /\ ("pupil_id_no" \in cols => SamePupil(a, b))
            /\ (SchoolCol \in cols => a.school = b.school)
        idxFirst == {sorted[k].idx : k \in {k \in 1..Len(sorted) :
                         \A j \in 1..(k - 1) : ~Same(sorted[j], sorted[k])}}
        First(row) == row.idx \in idxFirst
    IN  IF Cardinality(DupCols(cols)) > 1 THEN SelectSeq(sorted, First) ELSE rows

\* the frame the dictionaries are built from
StopRows(optdump, session_type) ==
    Deduplicated(FilteredRows(optdump, session_type), optdump.cols)

IsPupilStop(row) == row.seg_no.v # 0

IsSchoolStop(row) == row.seg_no.v = 0

\* df[df["Sequence"] != 0].sort_values(by=["Route", "Sequence"])
PupilStops(rows) ==
    LET Less(a, b) ==
            TextLess(a.route, b.route) \/ (a.route = b.route /\ a.seg_no.v < b.seg_no.v)
    IN  SortedBy(SelectSeq(rows, IsPupilStop), Less)

\* df[df["Sequence"] == 0].sort_values(by=["Route", "Sess_Beg."])
SchoolStops(rows) ==
    LET Less(a, b) ==
            \/ TextLess(a.route, b.route)
            \/ /\ a.route = b.route
               /\ HasTime(a)
               /\ (~HasTime(b) \/ a.sess_beg.v < b.sess_beg.v)
    IN  SortedBy(SelectSeq(rows, IsSchoolStop), Less)

Coords(row) == <<row.pupil_lat.v, row.pupil_lon.v>>

\* the key of a pupil stop and of a school stop in the dictionaries of a route
PupilKey(row) == row.seg_no.v

SchoolKey_Sequence(row) == row.seg_no.v

SchoolKey(row) == row.idx

\* str(row["School_Code_&_Name"]).replace("ARRIVE", "").strip()
CleanedSchoolName(row) == Strip(RemoveAll(row.school, ArrivePattern))

\* d.setdefault(route, {})[key] = value over the rows in order: the inner
\* dictionary of one route, the last row of a key giving its value
RouteDict(rows, route, Key(_), Value(_), Has(_)) ==
    LET at == {i \in 1..Len(rows) : rows[i].route = route /\ Has(rows[i])}
    IN  [k \in {Key(rows[i]) : i \in at} |->
            Value(rows[CHOOSE i \in at :
                     /\ Key(rows[i]) = k
                     /\ \A j \in at : Key(rows[j]) = k => j <= i])]

Always(row) == TRUE

RoutesOf(rows) == {rows[i].route : i \in 1..Len(rows)}

NoResult == [kind |-> "none", routes |-> EmptyDict]

Raised == [kind |-> "raise", routes |-> EmptyDict]

\* pd.DataFrame(columns=["Route"])
EmptyRouteFrame == [kind |-> "frame", routes |-> EmptyDict]

PupilId(row) == row.pupil_id_no

SessBeg(row) == row.sess_beg.v

\* NaN in the vehicle column; no vehicle map holds an empty text
NoVehicle == <<>>

\* final_df["Route"].map(routes_to_buses)
Vehicle(routes_to_buses, r) ==
    IF r \in DOMAIN routes_to_buses THEN routes_to_buses[r] ELSE NoVehicle

\* the vehicle column without the dropna
MappedRoutes_NoDrop(routes, routes_to_buses) == routes

\* final_df.dropna(subset=[vehicle_col], inplace=True)
MappedRoutes(routes, routes_to_buses) ==
    {r \in routes : Vehicle(routes_to_buses, r) # NoVehicle}

\* lines 447-557: the dictionaries, the merges and the vehicle join
BuildLocations(rows, cols, routes_to_buses) ==
    LET pupil_stops == PupilStops(rows)
        school_stops == SchoolStops(rows)
        kept == MappedRoutes(RoutesOf(rows), routes_to_buses)
        Entry(r) ==
            IF "seg_no" \in cols
            THEN [pickups |-> RouteDict(pupil_stops, r, PupilKey, Coords, Always),
                  student_ids |->
                      IF "pupil_id_no" \in cols
                      THEN RouteDict(pupil_stops, r, PupilKey, PupilId, Always) ELSE EmptyDict,
                  schools |-> RouteDict(school_stops, r, SchoolKey, Coords, Always),
                  school_names |->
                      IF SchoolCol \in cols
                      THEN RouteDict(school_stops, r, SchoolKey, CleanedSchoolName, Always)
                      ELSE EmptyDict,
                  sess_beg |-> RouteDict(school_stops, r, SchoolKey, SessBeg, HasTime),
                  vehicle |-> Vehicle(routes_to_buses, r)]
            ELSE [pickups |-> EmptyDict, student_ids |-> EmptyDict, schools |-> EmptyDict,
                  school_names |-> EmptyDict, sess_beg |-> EmptyDict,
                  vehicle |-> Vehicle(routes_to_buses, r)]
    IN  IF "seg_no" \in cols /\ "sess_beg" \notin cols THEN Raised
        ELSE IF kept = {} THEN NoResult
        ELSE [kind |-> "frame", routes |-> [r \in kept |-> Entry(r)]]

ProcessOptdump(optdump, session_type, routes_to_buses) ==
    LET cols == optdump.cols
        in_session == IF "am_pm" \in cols
                      THEN SelectSeq(optdump.rows, LAMBDA row : InSession(row, session_type))
                      ELSE optdump.rows
    IN  IF optdump.rows = <<>> THEN EmptyRouteFrame
        ELSE IF in_session = <<>> THEN EmptyRouteFrame
        ELSE IF "pupil_lat" \notin cols \/ "pupil_lon" \notin cols THEN NoResult
        ELSE IF SelectSeq(in_session,
                    LAMBDA row : /\ ("address" \in cols => ~ContainsNoCase(row.address, SeePattern))
                                 /\ (SchoolCol \in cols =>
                                        ~ContainsNoCase(row.school, DismissPattern))
                                 /\ IsNumber(row.pupil_lat) /\ IsNumber(row.pupil_lon)) = <<>>
             THEN EmptyRouteFrame
        ELSE BuildLocations(StopRows(optdump, session_type), cols, routes_to_buses)

\* process_am_pm: None becomes an empty frame
FrameOrEmpty(result) == IF result.kind = "none" THEN [kind |-> "frame", routes |-> EmptyDict] ELSE result

(***************************************************************************)
(* format_gps_trace.  A cell of the frame is a record: kind "num" (a       *)
(* number, or a text float() accepts), "nan" (the float NaN that pandas    *)
(* puts where a record has no value), "none" (None) or "str" (a text       *)
(* float() rejects).                                                       *)
(***************************************************************************)
GpsCols == {"latitude", "longitude", "dateTime", "speed"}

\* float(cell): ValueError for a text, TypeError for None, NaN stays NaN
Float(cell) ==
    IF cell.kind \in {"num", "nan"} THEN [ok |-> TRUE, value |-> cell] ELSE [ok |-> FALSE, value |-> cell]

\* timestamp_dt.isoformat()
IsoFormat(timestamp_dt) == TsInput("utc", timestamp_dt.t, 0)

\* row.get('speed', 0)
RowSpeed(cols, row) == IF "speed" \in cols THEN row.speed ELSE SpeedInput("num", 0)

TraceFeature(lon, lat, dateTime, speed) ==
    [coordinates |-> <<lon, lat>>, dateTime |-> dateTime, speed |-> speed]

\* the body of the loop: the features one row adds
RowFeatures(cols, row) ==
    IF "latitude" \notin cols \/ "longitude" \notin cols THEN <<>>
    ELSE LET lat == Float(row.latitude)
             lon == Float(row.longitude)
             timestamp_dt == ParseTimestamp(row.dateTime)
         IN  IF ~lat.ok \/ ~lon.ok THEN <<>>
             ELSE IF ~timestamp_dt.ok THEN <<>>
             ELSE <<TraceFeature(lon.value, lat.value, IsoFormat(timestamp_dt),
                                 RowSpeed(cols, row))>>

RECURSIVE TraceFrom(_, _, _)
TraceFrom(cols, rows, i) ==
    IF i > Len(rows) THEN <<>>
    ELSE RowFeatures(cols, rows[i]) \o TraceFrom(cols, rows, i + 1)

FormatGpsTrace(vehicle_data_df) ==
    IF vehicle_data_df.rows = <<>> THEN <<>>
    ELSE IF "dateTime" \notin vehicle_data_df.cols THEN <<>>
    ELSE TraceFrom(vehicle_data_df.cols, vehicle_data_df.rows, 1)

(***************************************************************************)
(* Bounds and input sets of the normaliser specification.                  *)
(***************************************************************************)
MaxVehLen == 6

VehAlphabet == {"1", "0", ".", "A", " "}

VehSamples ==
    { <<"1", "2", "3">>, <<"1", "2", "3", "4", ".", "0">>, <<"1", "2", "3", "4">>,
      <<"n", "a", "n">>, <<"N", "a", "N">>, <<"N", "o", "n", "e">>, <<"N", "O", "N", "E">>,
      <<"#", "N", "/", "A">>, <<"#", "n", "/", "a">>, <<"N", "A">>, <<"n", "a">>,
      <<"N", "/", "A">>, <<"T", "B", "D">>, <<"N", "T", "1", "2", "3", "4">>,
      <<"1", "2", "-", "3", "4">>, <<"B", "1", "2", "3">> }

VehTexts == TextsUpTo(VehAlphabet, MaxVehLen) \cup VehSamples

(***************************************************************************)
(* Bounds and input sets of the resolver specification.                    *)
(***************************************************************************)
\* rows per sheet
MaxRows == 2

\* days the clock may advance; the clock starts on Sunday 2024-01-07
MaxTicks == 1

FirstToday == 738886 + 6

\* 1500-01-01, 2023-12-31 (Sunday), 2024-01-01 (Monday), 2024-01-07 (Sunday)
DateInputs == {547499, 738885, 738886, 738892}

RouteB1 == <<"B", "1">>

RouteInputs == {RouteB1, <<"b", "1", " ">>}

CurrentCols == {"Date", "Route", "Trip Type", "Vehicle#", "Name", "Phone"}

HistoricalCols == HISTORICAL_COLS_TO_KEEP \cup {"Notes"}

SheetRow(date, dateid, route, trip, vehicle, name, phone) ==
    [Date |-> date, DateID |-> dateid, Route |-> route, TripType |-> trip,
     Vehicle |-> vehicle, Name |-> name, Phone |-> phone]

DriverAnn == <<"A", "n", "n">>

DriverPhoneText == <<"5", "5", "5", "-", "1", "2">>

\* rows of the current sheet: the Trip Type and Vehicle# texts vary
CurrentRowsVehicles ==
    { SheetRow(FormatWeekdayDay(738886), EmptyDate, RouteB1, trip, vehicle, DriverAnn, DriverPhoneText) :
        trip \in {<<"A", "M">>, <<" ", "p", "m">>, <<"M", "I", "D">>},
        vehicle \in {<<"1", "2", "3">>, <<>>} }
    \cup
    { SheetRow(FormatWeekdayDay(738886), EmptyDate, <<" ", "b", "1">>, <<"A", "M">>,
               <<"1", "2", "3", "4">>, DriverAnn, DriverPhoneText),
      SheetRow(FormatWeekdayDay(738886), EmptyDate, RouteB1, <<"A", "M">>,
               <<"N", "a", "N">>, DriverAnn, DriverPhoneText) }

DriverBob == <<" ", "B", "o", "b">>

\* rows of the current sheet: the Name and Phone texts vary
CurrentRowsDrivers ==
    { SheetRow(FormatWeekdayDay(738886), EmptyDate, RouteB1, <<"A", "M">>, <<"1", "2", "3">>,
               d[1], d[2]) :
        d \in { <<(<<>>), (<<>>)>>, <<DriverAnn, DriverPhoneText>>, <<DriverBob, (<<>>)>>,
                <<(<<>>), (<<"5", "5", "5", " ", "1", "3">>)>> } }

\* rows of the current sheet: the Date texts vary
CurrentRowsDates ==
    { SheetRow(date, EmptyDate, RouteB1, <<"A", "M">>, <<"1", "2", "3">>, DriverAnn, <<>>) :
        date \in {FormatWeekdayDay(738886), Padded(FormatWeekdayDay(738886)),
                  FormatWeekdayDay(738892), FormatWeekdayDay(738893), EmptyDate} }

\* rows of the historical sheet: the DateID texts vary
HistoricalRowsDates ==
    { SheetRow(FormatWeekdayDay(738885), dateid, RouteB1, <<"A", "M">>, <<"8", "8", "8", "8">>,
               DriverAnn, <<>>) :
        dateid \in {FormatMDY(738885), FormatISO(738885), FormatMDYTime(738885, 450),
                    FormatMDY(738892), FormatMDY(547499), JunkDate, EmptyDate} }
    \cup
    { SheetRow(FormatWeekdayDay(738885), FormatMDY(738885), RouteB1, <<"P", "M">>,
               <<"9", "9", "9">>, DriverAnn, <<>>) }

RECURSIVE SeqsUpTo(_, _)
SeqsUpTo(S, n) ==
    IF n = 0 THEN {<<>>}
    ELSE LET shorter == SeqsUpTo(S, n - 1)
         IN  shorter \cup {Append(q, x) : q \in shorter, x \in S}

Sheet(cols, rows) == [cols |-> cols, rows |-> rows]

FixedCurrentSheet ==
    Sheet(CurrentCols,
          << SheetRow(FormatWeekdayDay(738886), EmptyDate, RouteB1, <<"A", "M">>,
                      <<"1", "2", "3">>, DriverAnn, DriverPhoneText),
             SheetRow(FormatWeekdayDay(738893), EmptyDate, RouteB1, <<"P", "M">>,
                      <<"4", "5", "6", "7">>, DriverAnn, DriverPhoneText) >>)

FixedHistoricalSheet ==
    Sheet(HistoricalCols,
          << SheetRow(FormatWeekdayDay(738885), FormatMDY(738885), RouteB1, <<"A", "M">>,
                      <<"8", "8", "8", "8">>, DriverAnn, <<>>),
             SheetRow(FormatWeekdayDay(738892), FormatMDY(738892), RouteB1, <<"P", "M">>,
                      <<"9", "9", "9">>, DriverAnn, <<>>) >>)

\* the (current sheet, historical sheet) pairs the model starts from
SheetPairs ==
    {<<Sheet(CurrentCols, rows), FixedHistoricalSheet>> :
        rows \in SeqsUpTo(CurrentRowsVehicles, MaxRows) \cup SeqsUpTo(CurrentRowsDates, MaxRows)
                    \cup SeqsUpTo(CurrentRowsDrivers, MaxRows)}
    \cup
    {<<FixedCurrentSheet, Sheet(HistoricalCols, rows)>> :
        rows \in SeqsUpTo(HistoricalRowsDates, MaxRows)}
    \cup
    {<<Sheet(CurrentCols \ {c}, FixedCurrentSheet.rows),
       Sheet(HistoricalCols \ {h}, FixedHistoricalSheet.rows)>> :
        c \in {"Date", "Route", "Name"}, h \in {"DateID", "Route"}}

(***************************************************************************)
(* Bounds and input sets of the annotation specification.  Instants are    *)
(* small integers; the windows used are [1, 2] and [0, 2].                 *)
(***************************************************************************)
\* longest GPS trace
MaxPts == 4

\* longest exception list
MaxExc == 3

Utc(t) == TsInput("utc", t, 0)

JunkTs == TsInput("junk", 0, 0)

Num(v) == SpeedInput("num", v)

NoDuration == [kind |-> "none", v |-> 0]

RawException(rule_name, start_time, end_time, duration_s) ==
    [rule_name |-> rule_name, start_time |-> start_time, end_time |-> end_time,
     duration_s |-> duration_s]

RuleSpeeding == <<"S", "p", "e", "e", "d", "i", "n", "g">>

RulePostedSpeeding ==
    <<"P", "O", "S", "T", "E", "D", " ", "S", "P", "E", "E", "D", "I", "N", "G">>

RuleIdling == <<"I", "d", "l", "i", "n", "g">>

RuleEngineIdle == <<"E", "n", "g", "i", "n", "e", " ", "I", "d", "l", "e">>

RuleSeatbelt == <<"S", "e", "a", "t", "b", "e", "l", "t">>

\* the trace points of the speed family, in the order the trace lists them
SpeedPoints ==
    << Feature(Utc(0), Num(90)), Feature(Utc(0), Num(40)),
       Feature(Utc(1), Num(40)), Feature(Utc(1), SpeedInput("none", 0)),
       Feature(Utc(1), Num(72)), Feature(Utc(1), Num(90)),
       Feature(JunkTs, Num(90)), Feature(TsInput("offset", 3, 1), Num(55)),
       Feature(Utc(2), Num(72)), Feature(Utc(2), Num(40)),
       Feature(Utc(2), Num(90)), Feature(Utc(3), Num(90)),
       Feature(TsInput("naive", 3, 0), SpeedInput("str", 0)) >>

Min(S) == CHOOSE x \in S : \A y \in S : x <= y

RECURSIVE SubSeq_Of(_, _)
SubSeq_Of(list, idxs) ==
    IF idxs = {} THEN <<>>
    ELSE <<list[Min(idxs)]>> \o SubSeq_Of(list, idxs \ {Min(idxs)})

\* traces of at most MaxPts of the points, in list order
SpeedTraces ==
    {SubSeq_Of(SpeedPoints, idxs) :
        idxs \in {I \in SUBSET (1..Len(SpeedPoints)) : Cardinality(I) <= MaxPts}}

SpeedExceptions ==
    { <<RawException(RuleSpeeding, Utc(1), Utc(2), [kind |-> "num", v |-> 60])>>,
      <<RawException(RulePostedSpeeding, Utc(2), TsInput("offset", 2, 1), NoDuration)>>,
      <<RawException(RuleIdling, Utc(1), Utc(2), NoDuration)>>,
      <<RawException(RuleSpeeding, JunkTs, Utc(2), NoDuration)>>,
      <<>> }

\* the priority family: one trace point, any list of overlapping windows
PriorityTraces == { <<Feature(Utc(t), Num(40))>> : t \in {0, 1} }

PriorityExceptionSet ==
    { RawException(r, Utc(a), Utc(2), NoDuration) :
        r \in {RuleSpeeding, RuleIdling, RuleEngineIdle, RuleSeatbelt}, a \in {0, 1} }
    \cup { RawException(RuleSpeeding, Utc(0), TsInput("none", 0, 0), NoDuration) }

PriorityExceptions == SeqsUpTo(PriorityExceptionSet, MaxExc)

AnnotateInputs ==
    (SpeedTraces \X SpeedExceptions) \cup (PriorityTraces \X PriorityExceptions)

(***************************************************************************)
(* Bounds and input sets of the stop extraction specification.             *)
(***************************************************************************)
\* most rows in a dump
MaxOptRows == 3

RouteB2 == <<"B", "2">>

Both == <<"B", "o", "t", "h">>

PmOnly == <<"P", "M", " ", "O", "n", "l", "y">>

AmOnly == <<"A", "M", " ", "O", "N", "L", "Y">>

Addr == <<"1", " ", "A", " ", "S", "T">>

SeeOps == <<"S", "e", "e", " ", "O", "p", "e", "r", "a", "t", "i", "o", "n", "s">>

PS1Arrive == <<"P", "S", "1", " ", "A", "R", "R", "I", "V", "E">>

PS1 == <<"P", "S", "1">>

PS2 == <<"P", "S", "2">>

PS1Dismiss == <<"P", "S", "1", " ", "D", "i", "s", "m", "i", "s", "s">>

Coord(v) == [kind |-> "num", v |-> v]

BlankValue == [kind |-> "blank", v |-> 0]

Pupil(v) == [na |-> FALSE, v |-> v]

NoPupil == [na |-> TRUE, v |-> 0]

TimeOfDay(v) == [kind |-> "time", v |-> v]

OptRow(route, am_pm, address, school, lat, lon, seg_no, pupil_id_no, sess_beg) ==
    [route |-> route, am_pm |-> am_pm, address |-> address, school |-> school,
     pupil_lat |-> lat, pupil_lon |-> lon, seg_no |-> seg_no, pupil_id_no |-> pupil_id_no,
     sess_beg |-> sess_beg]

SchoolRows ==
    { OptRow(RouteB1, Both, Addr, PS1Arrive, Coord(40), Coord(73), Coord(0), NoPupil, TimeOfDay(8)),
      OptRow(RouteB1, Both, Addr, PS2, Coord(41), Coord(74), Coord(0), NoPupil, TimeOfDay(7)),
      OptRow(RouteB1, PmOnly, Addr, PS2, Coord(45), Coord(78), Coord(0), NoPupil, BlankValue),
      OptRow(RouteB2, Both, Addr, PS1Arrive, Coord(40), Coord(73), Coord(0), NoPupil, TimeOfDay(8)) }

PupilRows ==
    { OptRow(RouteB1, Both, Addr, PS1, Coord(42), Coord(75), Coord(1), Pupil(555), TimeOfDay(8)),
      OptRow(RouteB1, AmOnly, Addr, PS1, Coord(43), Coord(76), Coord(1), Pupil(556), TimeOfDay(8)),
      OptRow(RouteB1, Both, Addr, PS1, Coord(44), Coord(77), Coord(2), Pupil(555), TimeOfDay(8)) }

RemovedRows ==
    { OptRow(RouteB1, Both, SeeOps, PS2, Coord(47), Coord(80), Coord(0), NoPupil, TimeOfDay(8)),
      OptRow(RouteB1, Both, Addr, PS1Dismiss, Coord(48), Coord(81), Coord(0), NoPupil, TimeOfDay(8)) }

NoNumberRows ==
    { OptRow(RouteB1, Both, Addr, PS2, BlankValue, Coord(82), Coord(0), NoPupil, TimeOfDay(8)),
      OptRow(RouteB1, Both, Addr, PS2, Coord(49), Coord(83), BlankValue, Pupil(558), TimeOfDay(8)) }

\* pd.DataFrame(all_rows): the rows get the labels 0, 1, ...
OptFrame(cols, values) ==
    [cols |-> cols,
     rows |-> [i \in 1..Len(values) |->
                  [idx |-> i - 1, route |-> values[i].route, am_pm |-> values[i].am_pm,
                   address |-> values[i].address, school |-> values[i].school,
                   pupil_lat |-> values[i].pupil_lat, pupil_lon |-> values[i].pupil_lon,
                   seg_no |-> values[i].seg_no, pupil_id_no |-> values[i].pupil_id_no,
                   sess_beg |-> values[i].sess_beg]]]

BusB1 == Put(EmptyDict, RouteB1, <<"N", "T", "0", "1", "2", "3">>)

BusB1B2 == Put(BusB1, RouteB2, <<"N", "T", "4", "5", "6", "7">>)

\* one school stop and one pickup, to go with the rows the filters remove
KeptRows ==
    { OptRow(RouteB1, Both, Addr, PS1Arrive, Coord(40), Coord(73), Coord(0), NoPupil, TimeOfDay(8)),
      OptRow(RouteB1, Both, Addr, PS1, Coord(42), Coord(75), Coord(1), Pupil(555), TimeOfDay(8)) }

\* dumps with every column, with vehicles for both routes or for one route
\* and one session, and dumps lacking one column
OptInputs ==
    { <<OptFrame(OptCols, values), BusB1B2, BusB1B2>> :
        values \in SeqsUpTo(SchoolRows \cup PupilRows, MaxOptRows) }
    \cup
    { <<OptFrame(OptCols, values), BusB1B2, BusB1B2>> :
        values \in SeqsUpTo(KeptRows \cup RemovedRows, MaxOptRows) }
    \cup
    { <<OptFrame(OptCols, values), BusB1, EmptyDict>> :
        values \in SeqsUpTo({v \in SchoolRows : v.am_pm = Both} \cup NoNumberRows, MaxOptRows) }
    \cup
    { <<OptFrame(OptCols \ {c}, values), BusB1B2, BusB1B2>> :
        values \in SeqsUpTo({v \in SchoolRows \cup PupilRows :
                                v.route = RouteB1 /\ v.am_pm = Both /\ v.seg_no.v < 2},
                            MaxOptRows),
        c \in OptCols \ {"route", "pupil_lon"} }

(***************************************************************************)
(* Bounds and input sets of the trace formatting specification.            *)
(***************************************************************************)
MaxGpsRows == 2

GpsValue(kind, v) == [kind |-> kind, v |-> v]

GpsRow(latitude, longitude, dateTime, speed) ==
    [latitude |-> latitude, longitude |-> longitude, dateTime |-> dateTime, speed |-> speed]

\* points that are complete, and points with one value missing or malformed;
\* the timestamps are not in chronological order
GpsRows ==
    { GpsRow(GpsValue("num", 40), GpsValue("num", 73), Utc(2), Num(30)),
      GpsRow(GpsValue("num", 41), GpsValue("num", 74), Utc(1), SpeedInput("nan", 0)),
      GpsRow(GpsValue("str", 0), GpsValue("num", 74), Utc(3), Num(10)),
      GpsRow(GpsValue("none", 0), GpsValue("num", 74), Utc(3), Num(10)),
      GpsRow(GpsValue("nan", 0), GpsValue("num", 74), Utc(0), Num(20)),
      GpsRow(GpsValue("num", 42), GpsValue("str", 0), Utc(1), Num(5)),
      GpsRow(GpsValue("num", 43), GpsValue("num", 74), JunkTs, Num(5)),
      GpsRow(GpsValue("num", 44), GpsValue("num", 74), TsInput("none", 0, 0),
             SpeedInput("str", 0)),
      GpsRow(GpsValue("num", 45), GpsValue("num", 74), TsInput("offset", 3, 1),
             SpeedInput("none", 0)) }

CompleteGpsRows ==
    {row \in GpsRows : row.latitude.kind = "num" /\ row.longitude.kind = "num"
                        /\ row.dateTime.kind = "utc"}

\* frames with every column, and frames of complete points lacking a column
GpsInputs ==
    { [cols |-> GpsCols, rows |-> rows] : rows \in SeqsUpTo(GpsRows, MaxGpsRows) }
    \cup
    { [cols |-> GpsCols \ {c}, rows |-> rows] :
        rows \in SeqsUpTo(CompleteGpsRows, MaxGpsRows), c \in GpsCols }

VARIABLES
    vn_pc,              \* normaliser: "off" | "row" | "skipped" | "mapped"
    vn_cell,            \* normaliser: the Vehicle# cell of the row being processed
    vehicle_full,       \* normaliser: the value stored in the vehicle map
    sheet_current,      \* the "Week Sheet" worksheet as get_all_values() returns it
    sheet_historical,   \* the "Archived_RAS" worksheet
    current_ras_df,     \* app.py global
    historical_ras_df,  \* app.py global
    today,              \* datetime.date.today()
    gm_pc,              \* /get_map: "off" | "idle" | "selected" | "resolved"
    route_input,        \* /get_map: request parameter
    date_obj,           \* /get_map: request parameter, parsed
    gm_today,           \* /get_map: local today (line 346)
    use_current_ras,    \* /get_map: local
    ras_df_to_filter,   \* /get_map: the copy taken under ras_data_lock
    gv_today,           \* get_vehicles_from_preloaded_ras: local today (line 174)
    ras_results,        \* /get_map: what get_vehicles_from_preloaded_ras returned
    am_bus_number,      \* /get_map: am_routes_to_buses.get(route_input)
    pm_bus_number,      \* /get_map: pm_routes_to_buses.get(route_input)
    an_pc,                \* annotation: "off" | "call" | "done"
    log_records_geojson,  \* annotation: the caller's list of features
    raw_exceptions,       \* annotation: the caller's list of exceptions
    processed_exceptions, \* annotation: local of the function
    annotated_log_records, \* annotation: the list the function returned
    opt_pc,              \* stop extraction: "off" | "call" | "done" | "raised"
    optdf,               \* /get_map: the dump get_opt_dump_data returned
    am_routes_to_buses,  \* /get_map: the AM vehicle map
    pm_routes_to_buses,  \* /get_map: the PM vehicle map
    am_locations_df,     \* /get_map: first result of process_am_pm
    pm_locations_df,     \* /get_map: second result of process_am_pm
    gps_pc,              \* trace formatting: "off" | "call" | "done"
    vehicle_data_df,     \* trace formatting: the frame fetch_bus_data returned
    trace_features,      \* trace formatting: the list format_gps_trace returned
    ras_data_lock,       \* cache: LockFree, Refresher or the request thread holding the lock
    startup,             \* cache: "off" | "historical" | "current" | "done" (lines 126-128)
    rf_pc,               \* cache: where the running fetch_and_cache_* call is
    rf_target,           \* cache: the snapshot that call refreshes
    temp_df,             \* cache: local of the running fetch_and_cache_* call
    req_pc,              \* cache: where each request thread is in get_map_data
    req_use_current_ras, \* cache: use_current_ras of each request thread
    req_ras_df_to_filter, \* cache: ras_df_to_filter of each request thread
    map_pc,              \* /get_map steps 3-8: "off" | "opt" | "process" | "am" | "pm" | "return" | "error" | "done"
    sources,             \* /get_map steps 3-8: what the dump and the telemetry source answer
    fetches,             \* /get_map steps 3-8: the calls made to each source
    gm,                  \* /get_map steps 3-8: the locals of get_map_data
    response,            \* /get_map steps 3-8: the status and the JSON body returned
    pt_pc,               \* parse_timestamp: "off" | "call" | "parsed" | "rejected" | "rendered" | "again"
    pt_py311,            \* parse_timestamp: whether fromisoformat is the one of Python 3.11 or later
    pt_input,            \* parse_timestamp: the argument ts_input
    pt_dt,               \* parse_timestamp: the value returned for ts_input
    pt_text,             \* parse_timestamp: the ISO-8601 rendering of that value
    pt_again             \* parse_timestamp: the value returned for the rendering

vnVars == <<vn_pc, vn_cell, vehicle_full>>

rasVars ==
    <<sheet_current, sheet_historical, current_ras_df, historical_ras_df, today, gm_pc,
      route_input, date_obj, gm_today, use_current_ras, ras_df_to_filter, gv_today, ras_results,
      am_bus_number, pm_bus_number>>

anVars ==
    <<an_pc, log_records_geojson, raw_exceptions, processed_exceptions, annotated_log_records>>

optVars ==
    <<opt_pc, optdf, am_routes_to_buses, pm_routes_to_buses, am_locations_df, pm_locations_df>>

gpsVars == <<gps_pc, vehicle_data_df, trace_features>>

\* holders of ras_data_lock other than the request threads 1, 2, ...
LockFree == 0

Refresher == -1

cacheVars ==
    <<ras_data_lock, startup, rf_pc, rf_target, temp_df, req_pc, req_use_current_ras,
      req_ras_df_to_filter>>

mapVars == <<map_pc, sources, fetches, gm, response>>

ptVars == <<pt_pc, pt_py311, pt_input, pt_dt, pt_text, pt_again>>

vars == <<vnVars, rasVars, anVars, optVars, gpsVars, cacheVars, mapVars, ptVars>>

PtOff ==
    /\ pt_pc = "off"
    /\ pt_py311 = FALSE
    /\ pt_input = <<>>
    /\ pt_dt = <<>>
    /\ pt_text = <<>>
    /\ pt_again = <<>>

MapOff ==
    /\ map_pc = "off"
    /\ sources = <<>>
    /\ fetches = <<>>
    /\ gm = <<>>
    /\ response = <<>>

CacheOff ==
    /\ ras_data_lock = LockFree
    /\ startup = "off"
    /\ rf_pc = "idle"
    /\ rf_target = "current"
    /\ temp_df = [cols |-> {}, rows |-> <<>>]
    /\ req_pc = <<>>
    /\ req_use_current_ras = <<>>
    /\ req_ras_df_to_filter = <<>>

GpsOff ==
    /\ gps_pc = "off"
    /\ vehicle_data_df = [cols |-> {}, rows |-> <<>>]
    /\ trace_features = <<>>

OptOff ==
    /\ opt_pc = "off"
    /\ optdf = OptFrame({}, <<>>)
    /\ am_routes_to_buses = EmptyDict
    /\ pm_routes_to_buses = EmptyDict
    /\ am_locations_df = EmptyRouteFrame
    /\ pm_locations_df = EmptyRouteFrame

AnOff ==
    /\ an_pc = "off"
    /\ log_records_geojson = <<>>
    /\ raw_exceptions = <<>>
    /\ processed_exceptions = <<>>
    /\ annotated_log_records = <<>>

VnOff == vn_pc = "off" /\ vn_cell = NA /\ vehicle_full = <<>>

NoRequest ==
    /\ route_input = <<>>
    /\ date_obj = 0
    /\ gm_today = 0
    /\ use_current_ras = FALSE
    /\ ras_df_to_filter = EmptyFrame
    /\ gv_today = 0
    /\ ras_results = DefaultReturn
    /\ am_bus_number = NoneValue
    /\ pm_bus_number = NoneValue

RasOff ==
    /\ sheet_current = Sheet({}, <<>>)
    /\ sheet_historical = Sheet({}, <<>>)
    /\ current_ras_df = EmptyFrame
    /\ historical_ras_df = EmptyFrame
    /\ today = 0
    /\ gm_pc = "off"
    /\ NoRequest

(***************************************************************************)
(* Specification of the resolver: the cached snapshots, the clock and one  *)
(* /get_map request at a time.                                             *)
(***************************************************************************)
\* after startup: both snapshots were fetched once (lines 125-127), or a fetch failed
Init ==
    /\ VnOff
    /\ AnOff
    /\ OptOff
    /\ GpsOff
    /\ CacheOff
    /\ MapOff
    /\ PtOff
    /\ \E pair \in SheetPairs :
         /\ sheet_current = pair[1]
         /\ sheet_historical = pair[2]
         /\ historical_ras_df = LoadHistorical(pair[2])
         /\ \/ current_ras_df = LoadCurrent(pair[1])
            \/ /\ pair[1] = FixedCurrentSheet
               /\ pair[2] = FixedHistoricalSheet
               /\ current_ras_df = EmptyFrame
    /\ today = FirstToday
    /\ gm_pc = "idle"
    /\ NoRequest

\* the calendar day changes
Tick ==
    /\ gm_pc # "off"
    /\ today < FirstToday + MaxTicks
    /\ today' = today + 1
    /\ UNCHANGED <<vnVars, anVars, optVars, gpsVars, cacheVars, mapVars, ptVars, sheet_current, sheet_historical, current_ras_df, historical_ras_df,
                   gm_pc, route_input, date_obj, gm_today, use_current_ras, ras_df_to_filter,
                   gv_today, ras_results, am_bus_number, pm_bus_number>>

\* the scheduled job, every 5 minutes
fetch_and_cache_current_ras ==
    /\ gm_pc # "off"
    /\ current_ras_df' = LoadCurrent(sheet_current)
    /\ UNCHANGED <<vnVars, anVars, optVars, gpsVars, cacheVars, mapVars, ptVars, sheet_current, sheet_historical, historical_ras_df, today, gm_pc,
                   route_input, date_obj, gm_today, use_current_ras, ras_df_to_filter,
                   gv_today, ras_results, am_bus_number, pm_bus_number>>

\* get_map_data, lines 336-352: read the request, choose and copy the snapshot
GetMapSelect ==
    /\ gm_pc = "idle"
    /\ \E route \in RouteInputs, date \in DateInputs :
         /\ route_input' = route
         /\ date_obj' = date
         /\ gm_today' = today
         /\ use_current_ras' = (date >= CurrentMonday(today))
         /\ ras_df_to_filter' = IF date >= CurrentMonday(today)
                                THEN current_ras_df ELSE historical_ras_df
    /\ gm_pc' = "selected"
    /\ UNCHANGED <<vnVars, anVars, optVars, gpsVars, cacheVars, mapVars, ptVars, sheet_current, sheet_historical, current_ras_df, historical_ras_df,
                   today, gv_today, ras_results, am_bus_number, pm_bus_number>>

\* get_map_data, lines 354-372: resolve vehicles and driver from the copy;
\* lines 436 and 473: look the two vehicles up by the requested route
GetMapResolve ==
    /\ gm_pc = "selected"
    /\ IF IsEmpty(ras_df_to_filter)
       THEN UNCHANGED <<gv_today, ras_results>>
       ELSE /\ gv_today' = today
            /\ ras_results' =
                 GetVehiclesFromPreloadedRas(ras_df_to_filter, date_obj, route_input, today)
    /\ am_bus_number' = DictGet(ras_results'.am_buses, route_input)
    /\ pm_bus_number' = DictGet(ras_results'.pm_buses, route_input)
    /\ gm_pc' = "resolved"
    /\ UNCHANGED <<vnVars, anVars, optVars, gpsVars, cacheVars, mapVars, ptVars, sheet_current, sheet_historical, current_ras_df, historical_ras_df,
                   today, route_input, date_obj, gm_today, use_current_ras, ras_df_to_filter>>

\* get_map_data returns; the next request starts from fresh locals
GetMapReturn ==
    /\ gm_pc = "resolved"
    /\ gm_pc' = "idle"
    /\ route_input' = <<>>
    /\ date_obj' = 0
    /\ gm_today' = 0
    /\ use_current_ras' = FALSE
    /\ ras_df_to_filter' = EmptyFrame
    /\ gv_today' = 0
    /\ ras_results' = DefaultReturn
    /\ am_bus_number' = NoneValue
    /\ pm_bus_number' = NoneValue
    /\ UNCHANGED <<vnVars, anVars, optVars, gpsVars, cacheVars, mapVars, ptVars, sheet_current, sheet_historical, current_ras_df, historical_ras_df,
                   today>>

Next ==
    \/ Tick
    \/ fetch_and_cache_current_ras
    \/ GetMapSelect
    \/ GetMapResolve
    \/ GetMapReturn

Spec == Init /\ [][Next]_vars

(***************************************************************************)
(* Specification of the normaliser: one matched row, any Vehicle# text.    *)
(***************************************************************************)
VnInit ==
    /\ RasOff
    /\ AnOff
    /\ OptOff
    /\ GpsOff
    /\ CacheOff
    /\ MapOff
    /\ PtOff
    /\ vn_pc = "row"
    /\ vn_cell \in {CacheCell(t) : t \in VehTexts}
    /\ vehicle_full = <<>>

\* line 278: the row is skipped, nothing is stored
VnSkip ==
    /\ vn_pc = "row"
    /\ VehicleSkipped(VehicleNumber(vn_cell))
    /\ vn_pc' = "skipped"
    /\ UNCHANGED <<vn_cell, vehicle_full, rasVars, anVars, optVars, gpsVars, cacheVars, mapVars, ptVars>>

\* lines 280-291: the cleaned value is stored
VnStore ==
    /\ vn_pc = "row"
    /\ ~VehicleSkipped(VehicleNumber(vn_cell))
    /\ vn_pc' = "mapped"
    /\ vehicle_full' = VehicleFull(VehicleNumber(vn_cell))
    /\ UNCHANGED <<vn_cell, rasVars, anVars, optVars, gpsVars, cacheVars, mapVars, ptVars>>

VnNext == VnSkip \/ VnStore

SpecVehicle == VnInit /\ [][VnNext]_vars

(***************************************************************************)
(* Specification of the annotation: one call of                            *)
(* annotate_log_records_with_exceptions on a trace and an exception list.  *)
(***************************************************************************)
AnInit ==
    /\ VnOff
    /\ RasOff
    /\ OptOff
    /\ GpsOff
    /\ CacheOff
    /\ MapOff
    /\ PtOff
    /\ an_pc = "call"
    /\ \E inp \in AnnotateInputs :
          /\ log_records_geojson = inp[1]
          /\ raw_exceptions = inp[2]
    /\ processed_exceptions = <<>>
    /\ annotated_log_records = <<>>

\* the whole call; the features are annotated in place and the list returned
Annotate ==
    /\ an_pc = "call"
    /\ an_pc' = "done"
    /\ log_records_geojson' = AnnotatedInPlace(log_records_geojson, raw_exceptions)
    /\ processed_exceptions' =
          IF log_records_geojson = <<>> \/ raw_exceptions = <<>>
             \/ ParsedLogs(log_records_geojson) = <<>>
          THEN <<>>
          ELSE ProcessedExceptions(raw_exceptions, ParsedLogs(log_records_geojson))
    /\ annotated_log_records' = log_records_geojson'
    /\ UNCHANGED <<raw_exceptions, vnVars, rasVars, optVars, gpsVars, cacheVars, mapVars, ptVars>>

AnNext == Annotate

SpecAnnotate == AnInit /\ [][AnNext]_vars

(***************************************************************************)
(* Specification of the stop extraction: one call of process_am_pm on a    *)
(* dump and the two vehicle maps.                                          *)
(***************************************************************************)
OptInit ==
    /\ VnOff
    /\ RasOff
    /\ AnOff
    /\ GpsOff
    /\ CacheOff
    /\ MapOff
    /\ PtOff
    /\ opt_pc = "call"
    /\ \E inp \in OptInputs :
          /\ optdf = inp[1]
          /\ am_routes_to_buses = inp[2]
          /\ pm_routes_to_buses = inp[3]
    /\ am_locations_df = EmptyRouteFrame
    /\ pm_locations_df = EmptyRouteFrame

\* process_am_pm returns the two frames, or process_optdump raises for one of
\* the sessions and process_am_pm with it
ProcessAmPm ==
    LET am == ProcessOptdump(optdf, "AM", am_routes_to_buses)
        pm == ProcessOptdump(optdf, "PM", pm_routes_to_buses)
    IN  /\ opt_pc = "call"
        /\ IF am.kind = "raise" \/ pm.kind = "raise"
           THEN /\ opt_pc' = "raised"
                /\ UNCHANGED <<am_locations_df, pm_locations_df>>
           ELSE /\ opt_pc' = "done"
                /\ am_locations_df' = FrameOrEmpty(am)
                /\ pm_locations_df' = FrameOrEmpty(pm)
        /\ UNCHANGED <<optdf, am_routes_to_buses, pm_routes_to_buses, vnVars, rasVars, anVars, gpsVars, cacheVars, mapVars, ptVars>>

OptNext == ProcessAmPm

SpecOpt == OptInit /\ [][OptNext]_vars

(***************************************************************************)
(* The snapshot cache: the two startup loads, the scheduled job, edits of  *)
(* the source sheets and MaxRequests request threads of /get_map, one      *)
(* step per statement that touches the lock or the cache.                  *)
(***************************************************************************)
MaxRequests == 2

RequestThreads == 1..MaxRequests

EditedCurrentSheet == Sheet(CurrentCols, <<FixedCurrentSheet.rows[1]>>)

EditedHistoricalSheet == Sheet(HistoricalCols, <<FixedHistoricalSheet.rows[1]>>)

CacheCurrentSheets == {FixedCurrentSheet, EditedCurrentSheet}

CacheHistoricalSheets == {FixedHistoricalSheet, EditedHistoricalSheet}

\* the variables of the resolver specification that the cache does not use
requestVars ==
    <<today, gm_pc, route_input, date_obj, gm_today, use_current_ras, ras_df_to_filter,
      gv_today, ras_results, am_bus_number, pm_bus_number>>

\* module load: both globals are empty frames (lines 20-21) and
\* fetch_and_cache_historical_ras() has been called (line 126)
CacheInit ==
    /\ VnOff
    /\ AnOff
    /\ OptOff
    /\ GpsOff
    /\ sheet_current \in CacheCurrentSheets
    /\ sheet_historical \in CacheHistoricalSheets
    /\ current_ras_df = EmptyFrame
    /\ historical_ras_df = EmptyFrame
    /\ today = 0
    /\ gm_pc = "off"
    /\ NoRequest
    /\ MapOff
    /\ PtOff
    /\ ras_data_lock = LockFree
    /\ startup = "historical"
    /\ rf_pc = "fetch"
    /\ rf_target = "historical"
    /\ temp_df = EmptyFrame
    /\ req_pc = [t \in RequestThreads |-> "idle"]
    /\ req_use_current_ras = [t \in RequestThreads |-> FALSE]
    /\ req_ras_df_to_filter = [t \in RequestThreads |-> EmptyFrame]

\* somebody edits a source sheet
SheetEdited ==
    /\ \/ /\ sheet_current' \in CacheCurrentSheets \ {sheet_current}
          /\ UNCHANGED sheet_historical
       \/ /\ sheet_historical' \in CacheHistoricalSheets \ {sheet_historical}
          /\ UNCHANGED sheet_current
    /\ UNCHANGED <<current_ras_df, historical_ras_df, requestVars, cacheVars,
                   vnVars, anVars, optVars, gpsVars, mapVars, ptVars>>

\* lines 57-62 and 86-113: the sheet is fetched and the frame built
FetchSucceeds ==
    /\ rf_pc = "fetch"
    /\ temp_df' = IF rf_target = "current" THEN LoadCurrent(sheet_current)
                  ELSE LoadHistorical(sheet_historical)
    /\ rf_pc' = "loaded"
    /\ UNCHANGED <<sheet_current, sheet_historical, current_ras_df, historical_ras_df,
                   requestVars, ras_data_lock, startup, rf_target, req_pc,
                   req_use_current_ras, req_ras_df_to_filter, vnVars, anVars, optVars, gpsVars, mapVars, ptVars>>

\* a failed refresh that empties the cache
FetchFails_ClearsCache ==
    /\ rf_pc = "fetch"
    /\ rf_pc' = "failed"
    /\ current_ras_df' = IF rf_target = "current" THEN EmptyFrame ELSE current_ras_df
    /\ historical_ras_df' = IF rf_target = "historical" THEN EmptyFrame ELSE historical_ras_df
    /\ UNCHANGED <<sheet_current, sheet_historical,
                   requestVars, ras_data_lock, startup, rf_target, temp_df, req_pc,
                   req_use_current_ras, req_ras_df_to_filter, vnVars, anVars, optVars, gpsVars, mapVars, ptVars>>

\* lines 65 and 119-121: the fetch or the parsing raises, the handler logs it
FetchFails ==
    /\ rf_pc = "fetch"
    /\ rf_pc' = "failed"
    /\ UNCHANGED <<sheet_current, sheet_historical, current_ras_df, historical_ras_df,
                   requestVars, ras_data_lock, startup, rf_target, temp_df, req_pc,
                   req_use_current_ras, req_ras_df_to_filter, vnVars, anVars, optVars, gpsVars, mapVars, ptVars>>

\* the refresh enters its with block without waiting for the lock
RefreshAcquire_NoLock ==
    /\ rf_pc = "loaded"
    /\ ras_data_lock' = Refresher
    /\ rf_pc' = "replace"
    /\ UNCHANGED <<sheet_current, sheet_historical, current_ras_df, historical_ras_df,
                   requestVars, startup, rf_target, temp_df, req_pc,
                   req_use_current_ras, req_ras_df_to_filter, vnVars, anVars, optVars, gpsVars, mapVars, ptVars>>

\* lines 63 and 115: with ras_data_lock
RefreshAcquire ==
    /\ rf_pc = "loaded"
    /\ ras_data_lock = LockFree
    /\ ras_data_lock' = Refresher
    /\ rf_pc' = "replace"
    /\ UNCHANGED <<sheet_current, sheet_historical, current_ras_df, historical_ras_df,
                   requestVars, startup, rf_target, temp_df, req_pc,
                   req_use_current_ras, req_ras_df_to_filter, vnVars, anVars, optVars, gpsVars, mapVars, ptVars>>

\* lines 63 and 116: the global is rebound and the with block is left
RefreshReplace ==
    /\ rf_pc = "replace"
    /\ current_ras_df' = IF rf_target = "current" THEN temp_df ELSE current_ras_df
    /\ historical_ras_df' = IF rf_target = "historical" THEN temp_df ELSE historical_ras_df
    /\ ras_data_lock' = LockFree
    /\ rf_pc' = "return"
    /\ UNCHANGED <<sheet_current, sheet_historical, requestVars, startup, rf_target, temp_df,
                   req_pc, req_use_current_ras, req_ras_df_to_filter,
                   vnVars, anVars, optVars, gpsVars, mapVars, ptVars>>

\* the call returns; at startup the next statement runs (lines 126-128)
RefreshReturn ==
    /\ rf_pc \in {"return", "failed"}
    /\ temp_df' = EmptyFrame
    /\ IF startup = "historical"
       THEN /\ startup' = "current"
            /\ rf_target' = "current"
            /\ rf_pc' = "fetch"
       ELSE /\ startup' = "done"
            /\ rf_pc' = "idle"
            /\ UNCHANGED rf_target
    /\ UNCHANGED <<sheet_current, sheet_historical, current_ras_df, historical_ras_df,
                   requestVars, ras_data_lock, req_pc, req_use_current_ras,
                   req_ras_df_to_filter, vnVars, anVars, optVars, gpsVars, mapVars, ptVars>>

\* line 128: the interval job of the scheduler, fetch_and_cache_current_ras
TimerFires ==
    /\ startup = "done"
    /\ rf_pc = "idle"
    /\ rf_pc' = "fetch"
    /\ rf_target' = "current"
    /\ UNCHANGED <<sheet_current, sheet_historical, current_ras_df, historical_ras_df,
                   requestVars, ras_data_lock, startup, temp_df, req_pc, req_use_current_ras,
                   req_ras_df_to_filter, vnVars, anVars, optVars, gpsVars, mapVars, ptVars>>

\* lines 336-350: a request arrives and decides which snapshot it needs
RequestStart(t) ==
    /\ startup = "done"
    /\ req_pc[t] = "idle"
    /\ \E use \in BOOLEAN : req_use_current_ras' = [req_use_current_ras EXCEPT ![t] = use]
    /\ req_pc' = [req_pc EXCEPT ![t] = "wait"]
    /\ UNCHANGED <<sheet_current, sheet_historical, current_ras_df, historical_ras_df,
                   requestVars, ras_data_lock, startup, rf_pc, rf_target, temp_df,
                   req_ras_df_to_filter, vnVars, anVars, optVars, gpsVars, mapVars, ptVars>>

\* line 351: with ras_data_lock
RequestAcquire(t) ==
    /\ req_pc[t] = "wait"
    /\ ras_data_lock = LockFree
    /\ ras_data_lock' = t
    /\ req_pc' = [req_pc EXCEPT ![t] = "copy"]
    /\ UNCHANGED <<sheet_current, sheet_historical, current_ras_df, historical_ras_df,
                   requestVars, startup, rf_pc, rf_target, temp_df, req_use_current_ras,
                   req_ras_df_to_filter, vnVars, anVars, optVars, gpsVars, mapVars, ptVars>>

\* the copy is taken and the lock kept while the request goes on
RequestCopy_KeepLock(t) ==
    /\ req_pc[t] = "copy"
    /\ req_ras_df_to_filter' =
          [req_ras_df_to_filter EXCEPT
              ![t] = IF req_use_current_ras[t] THEN current_ras_df ELSE historical_ras_df]
    /\ req_pc' = [req_pc EXCEPT ![t] = "filter"]
    /\ UNCHANGED <<sheet_current, sheet_historical, current_ras_df, historical_ras_df,
                   requestVars, ras_data_lock, startup, rf_pc, rf_target, temp_df,
                   req_use_current_ras, vnVars, anVars, optVars, gpsVars, mapVars, ptVars>>

\* line 352: the copy is taken and the with block is left
RequestCopy(t) ==
    /\ req_pc[t] = "copy"
    /\ req_ras_df_to_filter' =
          [req_ras_df_to_filter EXCEPT
              ![t] = IF req_use_current_ras[t] THEN current_ras_df ELSE historical_ras_df]
    /\ ras_data_lock' = LockFree
    /\ req_pc' = [req_pc EXCEPT ![t] = "filter"]
    /\ UNCHANGED <<sheet_current, sheet_historical, current_ras_df, historical_ras_df,
                   requestVars, startup, rf_pc, rf_target, temp_df, req_use_current_ras,
                   vnVars, anVars, optVars, gpsVars, mapVars, ptVars>>

\* line 352 raises: the with block releases the lock, lines 522-529 answer 500
RequestCopyFails(t) ==
    /\ req_pc[t] = "copy"
    /\ ras_data_lock' = LockFree
    /\ req_pc' = [req_pc EXCEPT ![t] = "failed"]
    /\ UNCHANGED <<sheet_current, sheet_historical, current_ras_df, historical_ras_df,
                   requestVars, startup, rf_pc, rf_target, temp_df, req_use_current_ras,
                   req_ras_df_to_filter, vnVars, anVars, optVars, gpsVars, mapVars, ptVars>>

\* lines 354-529: the request filters its copy, fetches the other sources
\* and answers
RequestFinish(t) ==
    /\ req_pc[t] \in {"filter", "failed"}
    /\ req_pc' = [req_pc EXCEPT ![t] = "idle"]
    /\ req_use_current_ras' = [req_use_current_ras EXCEPT ![t] = FALSE]
    /\ req_ras_df_to_filter' = [req_ras_df_to_filter EXCEPT ![t] = EmptyFrame]
    /\ UNCHANGED <<sheet_current, sheet_historical, current_ras_df, historical_ras_df,
                   requestVars, ras_data_lock, startup, rf_pc, rf_target, temp_df,
                   vnVars, anVars, optVars, gpsVars, mapVars, ptVars>>

CacheNext ==
    \/ SheetEdited
    \/ FetchSucceeds
    \/ FetchFails
    \/ RefreshAcquire
    \/ RefreshReplace
    \/ RefreshReturn
    \/ TimerFires
    \/ \E t \in RequestThreads :
          \/ RequestStart(t)
          \/ RequestAcquire(t)
          \/ RequestCopy(t)
          \/ RequestCopyFails(t)
          \/ RequestFinish(t)

SpecCache == CacheInit /\ [][CacheNext]_vars

\* the timer keeps firing, every thread that can run does, the sheet source
\* does not fail for ever and the refresh gets the lock in the end
FairSpecCache ==
    /\ SpecCache
    /\ WF_vars(TimerFires)
    /\ SF_vars(FetchSucceeds)
    /\ SF_vars(RefreshAcquire)
    /\ WF_vars(RefreshReplace)
    /\ WF_vars(RefreshReturn)
    /\ \A t \in RequestThreads : WF_vars(RequestCopy(t) \/ RequestCopyFails(t))

(***************************************************************************)
(* Steps 3 to 8 of get_map_data: the dump, the stop extraction, the two    *)
(* sessions and the response.  The schedule has been resolved (steps 1, 2).*)
(***************************************************************************)
MaxMapRows == 2

NAText == <<"N", "/", "A">>

\* bool(value) of a vehicle number: None and '' count as false
Truthy(value) == value # NoneValue /\ value # <<>>

\* d.get(k, 'N/A')
DictGetOrNA(d, k) == IF k \in DOMAIN d THEN d[k] ELSE NAText

\* the markers format_stops appends for one row of the locations frame; the
\* list is kept as the set of its markers (their keys are distinct), and of
\* the popup text the pupil id and the school name
RouteStops(entry) ==
    {[lat |-> entry.pickups[k][1], lon |-> entry.pickups[k][2], type |-> "student",
      sequence |-> k, info |-> DictGetOrNA(entry.student_ids, k)] : k \in DOMAIN entry.pickups}
    \cup
    {[lat |-> entry.schools[k][1], lon |-> entry.schools[k][2], type |-> "school",
      sequence |-> k, info |-> DictGetOrNA(entry.school_names, k)] : k \in DOMAIN entry.schools}

FormatStops(locations_df) ==
    UNION {RouteStops(locations_df.routes[r]) : r \in DOMAIN locations_df.routes}

\* get_opt_dump_data: the frame of the query, or None (ok FALSE) on any error
OptFailed == [ok |-> FALSE, df |-> OptFrame({}, <<>>)]

OptOutcomes ==
    {OptFailed}
    \cup {[ok |-> TRUE, df |-> OptFrame(OptCols, values)] : values \in SeqsUpTo(KeptRows, MaxMapRows)}
    \cup {[ok |-> TRUE, df |-> OptFrame(OptCols \ {"sess_beg"}, <<values>>)] :
             values \in {v \in KeptRows : v.seg_no.v = 0}}

DeviceB7 == <<"b", "7">>

\* fetch_bus_data: an empty frame without a device id on an error, an empty
\* frame when the device has no records, or the records of the window
TelemetryFailed == [df |-> EmptyFrame, device_id |-> NoneValue]

TelemetryOutcomes ==
    {TelemetryFailed, [df |-> EmptyFrame, device_id |-> DeviceB7]}
    \cup {[df |-> [cols |-> GpsCols, rows |-> rows], device_id |-> DeviceB7] :
             rows \in {<<GpsRow(GpsValue("num", 40), GpsValue("num", 73), Utc(2), Num(30))>>,
                       <<GpsRow(GpsValue("num", 40), GpsValue("num", 73), Utc(2), Num(30)),
                         GpsRow(GpsValue("num", 41), GpsValue("num", 74), Utc(3), Num(10))>>}}

\* the vehicle maps and the driver the resolver gave for the request
MapSchedules ==
    {[am |-> m[1], pm |-> m[2], driver_name |-> name] :
        m \in {<<BusB1B2, BusB1B2>>, <<BusB1, EmptyDict>>, <<EmptyDict, EmptyDict>>,
               <<Put(EmptyDict, RouteB1, <<>>), BusB1>>},
        name \in {<<"A", "n", "n">>, NAText}}

Sessions == {"AM", "PM"}

NoSessionData == [device_id |-> NoneValue, trace |-> <<>>, stops |-> {}]

\* a session whose stops are lost when the telemetry is empty
SessionData_RaiseOnEmpty(telemetry, locations_df) ==
    IF telemetry.df.rows = <<>> THEN NoSessionData
    ELSE [device_id |-> telemetry.device_id,
          trace |-> FormatGpsTrace(telemetry.df),
          stops |-> FormatStops(locations_df)]

\* lines 443-462 (480-500): the device id, the trace and the stops of a session
SessionData(telemetry, locations_df) ==
    [device_id |-> telemetry.device_id,
     trace |-> FormatGpsTrace(telemetry.df),
     stops |-> FormatStops(locations_df)]

\* lines 321-330 and the results of steps 1 and 2
MapInit ==
    /\ VnOff
    /\ RasOff
    /\ AnOff
    /\ OptOff
    /\ GpsOff
    /\ CacheOff
    /\ PtOff
    /\ map_pc = "opt"
    /\ sources \in [opt : OptOutcomes, AM : TelemetryOutcomes, PM : TelemetryOutcomes]
    /\ fetches = [opt |-> 0, AM |-> 0, PM |-> 0]
    /\ \E schedule \in MapSchedules :
          gm = [route_input |-> RouteB1,
                am_routes_to_buses |-> schedule.am, pm_routes_to_buses |-> schedule.pm,
                driver_name |-> schedule.driver_name, driver_phone |-> NAText,
                optdf |-> OptFrame({}, <<>>), optdf_json |-> <<>>,
                am_locations_df |-> EmptyRouteFrame, pm_locations_df |-> EmptyRouteFrame,
                bus_number |-> [s \in Sessions |-> NoneValue],
                session |-> [s \in Sessions |-> NoSessionData]]
    /\ response = <<>>

\* lines 397-414: one call of get_opt_dump_data; None becomes an empty frame
\* and the records are the rows of the frame
MapFetchOpt ==
    /\ map_pc = "opt"
    /\ fetches' = [fetches EXCEPT !.opt = @ + 1]
    /\ gm' = [gm EXCEPT !.optdf = sources.opt.df,
                        !.optdf_json = IF sources.opt.ok THEN sources.opt.df.rows ELSE <<>>]
    /\ map_pc' = "process"
    /\ UNCHANGED <<sources, response, vnVars, rasVars, anVars, optVars, gpsVars, cacheVars, ptVars>>

\* line 421: process_am_pm outside any inner try
MapProcessAmPm ==
    LET am == ProcessOptdump(gm.optdf, "AM", gm.am_routes_to_buses)
        pm == ProcessOptdump(gm.optdf, "PM", gm.pm_routes_to_buses)
    IN  /\ map_pc = "process"
        /\ IF am.kind = "raise" \/ pm.kind = "raise"
           THEN /\ map_pc' = "error"
                /\ UNCHANGED gm
           ELSE /\ map_pc' = "am"
                /\ gm' = [gm EXCEPT !.am_locations_df = FrameOrEmpty(am),
                                    !.pm_locations_df = FrameOrEmpty(pm)]
        /\ UNCHANGED <<sources, fetches, response, vnVars, rasVars, anVars, optVars, gpsVars,
                       cacheVars, ptVars>>

\* lines 436-468 and 473-506: the session of one vehicle
MapSession(s) ==
    LET routes_to_buses == IF s = "AM" THEN gm.am_routes_to_buses ELSE gm.pm_routes_to_buses
        locations_df == IF s = "AM" THEN gm.am_locations_df ELSE gm.pm_locations_df
        bus_number == DictGet(routes_to_buses, gm.route_input)
    IN  /\ map_pc = (IF s = "AM" THEN "am" ELSE "pm")
        /\ IF Truthy(bus_number)
           THEN /\ fetches' = [fetches EXCEPT ![s] = @ + 1]
                /\ gm' = [gm EXCEPT !.bus_number[s] = bus_number,
                                    !.session[s] = SessionData(sources[s], locations_df)]
           ELSE /\ gm' = [gm EXCEPT !.bus_number[s] = bus_number]
                /\ UNCHANGED fetches
        /\ map_pc' = (IF s = "AM" THEN "pm" ELSE "return")
        /\ UNCHANGED <<sources, response, vnVars, rasVars, anVars, optVars, gpsVars, cacheVars, ptVars>>

MapData(s) ==
    [vehicle_number |-> gm.bus_number[s], device_id |-> gm.session[s].device_id,
     trace |-> gm.session[s].trace, stops |-> gm.session[s].stops]

\* lines 512-519
MapReturn ==
    /\ map_pc = "return"
    /\ response' = [status |-> 200,
                    map_data |-> [s \in Sessions |-> MapData(s)],
                    opt_data |-> gm.optdf_json,
                    driver_name |-> gm.driver_name, driver_phone |-> gm.driver_phone]
    /\ map_pc' = "done"
    /\ UNCHANGED <<sources, fetches, gm, vnVars, rasVars, anVars, optVars, gpsVars, cacheVars, ptVars>>

\* lines 522-529: the top-level handler
MapError ==
    /\ map_pc = "error"
    /\ response' = [status |-> 500,
                    map_data |-> [s \in Sessions |-> EmptyDict],
                    opt_data |-> <<>>,
                    driver_name |-> NAText, driver_phone |-> NAText]
    /\ map_pc' = "done"
    /\ UNCHANGED <<sources, fetches, gm, vnVars, rasVars, anVars, optVars, gpsVars, cacheVars, ptVars>>

MapNext ==
    \/ MapFetchOpt
    \/ MapProcessAmPm
    \/ MapSession("AM")
    \/ MapSession("PM")
    \/ MapReturn
    \/ MapError

SpecMap == MapInit /\ [][MapNext]_vars

(***************************************************************************)
(* parse_timestamp at sub-second resolution.  A text is the record of its  *)
(* part up to the seconds (base, the wall-clock reading in seconds) and    *)
(* the characters after it (rest): the fraction and the offset.  A         *)
(* datetime value has the wall-clock seconds, the microsecond, the         *)
(* nanosecond below it (pandas Timestamp only) and its offset in hours.    *)
(***************************************************************************)
MaxFracLen == 7

DigitChars == <<"0", "1", "2", "3", "4", "5", "6", "7", "8", "9">>

DigitValue(c) == (CHOOSE i \in 1..10 : DigitChars[i] = c) - 1

\* the number written by the digits, padded on the right to width digits
RECURSIVE FracValue(_, _)
FracValue(digits, width) ==
    IF width = 0 THEN 0
    ELSE IF digits = <<>> THEN 0
    ELSE DigitValue(Head(digits)) * 10^(width - 1) + FracValue(Tail(digits), width - 1)

RECURSIVE NumberDigits(_, _)
NumberDigits(n, width) ==
    IF width = 0 THEN <<>>
    ELSE NumberDigits(n \div 10, width - 1) \o <<DigitChars[(n % 10) + 1]>>

CharsOf(text) == {text[i] : i \in 1..Len(text)}

\* str.find and str.rfind, 1-based, 0 when absent
FirstIndex(text, c) ==
    IF c \in CharsOf(text) THEN Min({i \in 1..Len(text) : text[i] = c}) ELSE 0

LastIndex(text, c) ==
    IF c \in CharsOf(text)
    THEN CHOOSE i \in 1..Len(text) : text[i] = c /\ \A j \in 1..Len(text) : text[j] = c => j <= i
    ELSE 0

From(text, i) == SubSeq(text, i, Len(text))

PlusZero == <<"+", "0", "0", ":", "0", "0">>

\* the number of digits a text starts with
RECURSIVE LeadingDigits(_)
LeadingDigits(text) ==
    IF text # <<>> /\ Head(text) \in Digits THEN 1 + LeadingDigits(Tail(text)) ELSE 0

\* an offset written +HH:00 or -HH:00
IsOffsetText(tz) ==
    /\ Len(tz) = 6
    /\ tz[1] \in {"+", "-"}
    /\ tz[2] \in Digits /\ tz[3] \in Digits
    /\ tz[4] = ":" /\ tz[5] = "0" /\ tz[6] = "0"

\* an offset written +HH or -HH, which only the pandas parser reads
IsShortOffsetText(tz) ==
    Len(tz) = 3 /\ tz[1] \in {"+", "-"} /\ tz[2] \in Digits /\ tz[3] \in Digits

OffsetHours(tz) ==
    (IF tz[1] = "-" THEN -1 ELSE 1) * (10 * DigitValue(tz[2]) + DigitValue(tz[3]))

DateTime(type, sec, micro, nano, aware, off) ==
    [type |-> type, sec |-> sec, micro |-> micro, nano |-> nano, aware |-> aware, off |-> off]

NoDateTime == [ok |-> FALSE, dt |-> DateTime("datetime", 0, 0, 0, FALSE, 0)]

\* lines 18-54: Z becomes +00:00, the offset is cut off the fraction, the
\* fraction is truncated to six digits and the text is put together again
PrepareText(rest) ==
    LET temp == IF rest # <<>> /\ rest[Len(rest)] = "Z"
                THEN SubSeq(rest, 1, Len(rest) - 1) \o PlusZero ELSE rest
    IN  IF "." \notin CharsOf(temp) THEN temp
        ELSE LET dot == FirstIndex(temp, ".")
                 parts1 == From(temp, dot + 1)
                 last_dash_idx == LastIndex(parts1, "-")
                 potential_tz == From(parts1, last_dash_idx + 1)
                 split ==
                     IF "+" \in CharsOf(parts1)
                     THEN <<SubSeq(parts1, 1, FirstIndex(parts1, "+") - 1),
                            From(parts1, FirstIndex(parts1, "+"))>>
                     ELSE IF /\ "-" \in CharsOf(parts1)
                             /\ Len(parts1) > 1
                             /\ Len(potential_tz) >= 4
                             /\ LET digits == SelectSeq(potential_tz, LAMBDA c : c # ":")
                                IN  digits # <<>> /\ \A i \in 1..Len(digits) : digits[i] \in Digits
                     THEN <<SubSeq(parts1, 1, last_dash_idx - 1), <<"-">> \o potential_tz>>
                     ELSE <<parts1, <<>>>>
                 frac_part == IF Len(split[1]) > 6 THEN SubSeq(split[1], 1, 6) ELSE split[1]
             IN  SubSeq(temp, 1, dot - 1) \o <<".">> \o frac_part \o split[2]

\* datetime.datetime.fromisoformat: before Python 3.11 a fraction has three
\* or six digits; an offset is written +HH:MM
FromIsoFormat(base, rest, py311) ==
    LET hasdot == rest # <<>> /\ rest[1] = "."
        body == IF hasdot THEN Tail(rest) ELSE rest
        n == LeadingDigits(body)
        frac == SubSeq(body, 1, n)
        tz == From(body, n + 1)
    IN  IF /\ (IF hasdot THEN n \in {3, 6} \/ (py311 /\ n >= 1) ELSE n = 0)
           /\ (tz = <<>> \/ IsOffsetText(tz))
        THEN [ok |-> TRUE,
              dt |-> DateTime("datetime", base, FracValue(SubSeq(frac, 1, IF n > 6 THEN 6 ELSE n), 6), 0,
                              tz # <<>>, IF tz = <<>> THEN 0 ELSE OffsetHours(tz))]
        ELSE NoDateTime

\* pd.to_datetime(ts_input, errors='coerce', utc=True) and to_pydatetime():
\* any number of fraction digits, Z or an offset, the reading converted to
\* UTC (a text without offset is taken as UTC), the nanoseconds dropped
PandasToDatetime(base, rest) ==
    LET temp == IF rest # <<>> /\ rest[Len(rest)] = "Z"
                THEN SubSeq(rest, 1, Len(rest) - 1) \o PlusZero ELSE rest
        hasdot == temp # <<>> /\ temp[1] = "."
        body == IF hasdot THEN Tail(temp) ELSE temp
        n == LeadingDigits(body)
        frac == SubSeq(body, 1, IF n > 6 THEN 6 ELSE n)
        tz == From(body, n + 1)
        off == IF tz = <<>> THEN 0 ELSE OffsetHours(tz)
    IN  IF /\ (hasdot => n >= 1) /\ (~hasdot => n = 0)
           /\ (tz = <<>> \/ IsOffsetText(tz) \/ IsShortOffsetText(tz))
        THEN [ok |-> TRUE,
              dt |-> DateTime("datetime", base - 3600 * off, FracValue(frac, 6), 0, TRUE, 0)]
        ELSE NoDateTime

\* lines 79-82: a naive value is labelled UTC, another offset is converted
Normalise(dt) ==
    IF ~dt.aware THEN [dt EXCEPT !.aware = TRUE, !.off = 0]
    ELSE IF dt.off # 0 THEN [dt EXCEPT !.sec = dt.sec - 3600 * dt.off, !.off = 0]
    ELSE dt

\* An argument: type "None", "NaT", "datetime", "Timestamp" (value dt) or
\* "str" (text base, rest).  instant is the reading the argument stands for
\* in UTC, a value without offset read as UTC: <<seconds, microsecond, nanosecond>>.
PtArgument(type, base, rest, dt, instant) ==
    [type |-> type, base |-> base, rest |-> rest, dt |-> dt, instant |-> instant]

\* parse_timestamp(ts_input, input_key_name)
parse_timestamp(ts_input, py311) ==
    CASE ts_input.type \in {"None", "NaT"} -> NoDateTime
      [] ts_input.type \in {"datetime", "Timestamp"} -> [ok |-> TRUE, dt |-> Normalise(ts_input.dt)]
      [] OTHER ->
           IF ts_input.base = -1 THEN NoDateTime
           ELSE LET iso == FromIsoFormat(ts_input.base, PrepareText(ts_input.rest), py311)
                    dt == IF iso.ok THEN iso ELSE PandasToDatetime(ts_input.base, ts_input.rest)
                IN  IF dt.ok THEN [ok |-> TRUE, dt |-> Normalise(dt.dt)] ELSE NoDateTime

\* dt.isoformat(): no fraction, six digits, or nine for a Timestamp with
\* nanoseconds; the offset as +HH:00
isoformat(dt) ==
    LET frac == IF dt.nano # 0 THEN NumberDigits(dt.micro, 6) \o NumberDigits(dt.nano, 3)
                ELSE IF dt.micro # 0 THEN NumberDigits(dt.micro, 6)
                ELSE <<>>
        hours == IF dt.off < 0 THEN -dt.off ELSE dt.off
        tz == IF ~dt.aware THEN <<>>
              ELSE <<IF dt.off < 0 THEN "-" ELSE "+">> \o NumberDigits(hours, 2) \o <<":", "0", "0">>
    IN  [base |-> dt.sec, rest |-> (IF frac = <<>> THEN <<>> ELSE <<".">> \o frac) \o tz]

\* the rendering with a trailing Z in place of +00:00
WithZ(text) ==
    IF Len(text.rest) >= 6 /\ From(text.rest, Len(text.rest) - 5) = PlusZero
    THEN [text EXCEPT !.rest = SubSeq(text.rest, 1, Len(text.rest) - 6) \o <<"Z">>]
    ELSE text

PtBase == 36000

FracTexts ==
    {SubSeq(<<"1", "2", "3", "4", "5", "6", "7", "8", "9">>, 1, n) : n \in 0..MaxFracLen}
    \cup {SubSeq(<<"0", "0", "0", "0", "0", "0", "0", "0", "1">>, 1, n) : n \in 0..MaxFracLen}

\* the offsets of the texts: none, Z, +00:00, +01:00, -05:00 and the short -05
OffsetTexts ==
    {<<<<>>, 0>>, <<<<"Z">>, 0>>, <<PlusZero, 0>>,
     <<<<"+", "0", "1", ":", "0", "0">>, 1>>, <<<<"-", "0", "5", ":", "0", "0">>, -5>>,
     <<<<"-", "0", "5">>, -5>>}

NoDt == DateTime("datetime", 0, 0, 0, FALSE, 0)

PtTexts ==
    {PtArgument("str", PtBase, (IF frac = <<>> THEN <<>> ELSE <<".">> \o frac) \o tz[1], NoDt,
                <<PtBase - 3600 * tz[2], FracValue(SubSeq(frac, 1, IF Len(frac) > 6 THEN 6 ELSE Len(frac)), 6), 0>>) :
        frac \in FracTexts, tz \in OffsetTexts}

PtObjects ==
    {PtArgument(type, 0, <<>>, DateTime(type, PtBase, micro, nano, tz[1], tz[2]),
                <<PtBase - 3600 * tz[2], micro, nano>>) :
        type \in {"datetime", "Timestamp"}, micro \in {0, 123456}, nano \in {0, 789},
        tz \in {<<FALSE, 0>>, <<TRUE, 0>>, <<TRUE, 1>>, <<TRUE, -5>>}}

\* None, NaT, a blank text (base -1) and a text no parser reads
PtInputs ==
    PtTexts
    \cup {a \in PtObjects : a.type = "datetime" => a.dt.nano = 0}
    \cup {PtArgument("None", 0, <<>>, NoDt, <<0, 0, 0>>),
          PtArgument("NaT", 0, <<>>, NoDt, <<0, 0, 0>>),
          PtArgument("str", -1, <<" ">>, NoDt, <<0, 0, 0>>),
          PtArgument("str", PtBase, <<"x">>, NoDt, <<0, 0, 0>>)}

PtInit ==
    /\ VnOff
    /\ RasOff
    /\ AnOff
    /\ OptOff
    /\ GpsOff
    /\ CacheOff
    /\ MapOff
    /\ pt_pc = "call"
    /\ pt_py311 \in BOOLEAN
    /\ pt_input \in PtInputs
    /\ pt_dt = NoDateTime
    /\ pt_text = [base |-> 0, rest |-> <<>>]
    /\ pt_again = NoDateTime

\* the call parse_timestamp(ts_input, key)
PtParse ==
    /\ pt_pc = "call"
    /\ pt_dt' = parse_timestamp(pt_input, pt_py311)
    /\ pt_pc' = IF pt_dt'.ok THEN "parsed" ELSE "rejected"
    /\ UNCHANGED <<pt_py311, pt_input, pt_text, pt_again, vnVars, rasVars, anVars, optVars,
                   gpsVars, cacheVars, mapVars>>

\* the ISO-8601 rendering of the result, as isoformat() gives it or with Z
PtRender ==
    /\ pt_pc = "parsed"
    /\ pt_text' \in {isoformat(pt_dt.dt), WithZ(isoformat(pt_dt.dt))}
    /\ pt_pc' = "rendered"
    /\ UNCHANGED <<pt_py311, pt_input, pt_dt, pt_again, vnVars, rasVars, anVars, optVars,
                   gpsVars, cacheVars, mapVars>>

\* the rendering parsed again
PtReparse ==
    /\ pt_pc = "rendered"
    /\ pt_again' = parse_timestamp(PtArgument("str", pt_text.base, pt_text.rest, NoDt, <<0, 0, 0>>),
                                   pt_py311)
    /\ pt_pc' = "again"
    /\ UNCHANGED <<pt_py311, pt_input, pt_dt, pt_text, vnVars, rasVars, anVars, optVars,
                   gpsVars, cacheVars, mapVars>>

PtNext == PtParse \/ PtRender \/ PtReparse

SpecParse == PtInit /\ [][PtNext]_vars

(***************************************************************************)
(* Trace formatting: one call of format_gps_trace.                         *)
(***************************************************************************)
GpsInit ==
    /\ VnOff
    /\ RasOff
    /\ AnOff
    /\ OptOff
    /\ CacheOff
    /\ MapOff
    /\ PtOff
    /\ gps_pc = "call"
    /\ vehicle_data_df \in GpsInputs
    /\ trace_features = <<>>

FormatTrace ==
    /\ gps_pc = "call"
    /\ trace_features' = FormatGpsTrace(vehicle_data_df)
    /\ gps_pc' = "done"
    /\ UNCHANGED <<vehicle_data_df, vnVars, rasVars, anVars, optVars, cacheVars, mapVars, ptVars>>

GpsNext == FormatTrace

SpecTrace == GpsInit /\ [][GpsNext]_vars

(***************************************************************************)
(* Properties of the resolver (checked under Spec).                        *)
(***************************************************************************)
\* the Monday on or before a day, found by search; 738886 is a Monday
MostRecentMonday(t) == CHOOSE m \in (t - 6)..t : (m - 738886) % 7 = 0

Resolved == gm_pc = "resolved" /\ ras_results.is_current_week # "unset"

MatchedRows == ras_results.filtered_data.rows

RowKey(r) == Strip(StrOf(r.Route))

\* C1: a target date on or after the most recent Monday of the day the
\* request reads selects (a copy of) the current snapshot, an earlier date the
\* historical one; and the resolver applies current-style matching (column
\* Date) exactly for a date on or after the most recent Monday of the day it
\* reads, historical-style matching (column DateID) otherwise.
ScheduleRouting ==
    /\ [](gm_pc \in {"selected", "resolved"}
            => (use_current_ras <=> date_obj >= MostRecentMonday(gm_today)))
    /\ [](Resolved
            => /\ ras_results.is_current_week = "current"
                    <=> date_obj >= MostRecentMonday(gv_today)
               /\ ras_results.date_filter_col =
                    IF date_obj >= MostRecentMonday(gv_today) THEN "Date" ELSE "DateID")
    /\ [][gm_pc = "idle" /\ gm_pc' = "selected"
            => ras_df_to_filter' = IF date_obj' >= MostRecentMonday(today)
                                   THEN current_ras_df ELSE historical_ras_df]_vars

\* C1 witness: the target date is the most recent Monday and it was resolved
\* against the current snapshot, whose row for that day matched
RoutingWitness ==
    /\ Resolved
    /\ date_obj = MostRecentMonday(gm_today)
    /\ use_current_ras
    /\ ras_df_to_filter = current_ras_df
    /\ ras_results.date_filter_col = "Date"
    /\ MatchedRows # <<>>

\* a cell that assigns no vehicle: empty in the sheet, or one of the sentinels
NoVehicleCell(cell) == cell.na \/ Lower(Strip(cell.s)) \in VehicleSentinels

IsTrip(r, session) == Upper(Strip(StrOf(r.TripType))) = session

\* C7: a key is in the AM (PM) vehicle map only if some matched AM (PM) row of
\* that route carries a Vehicle# that is neither empty nor a sentinel; rows
\* without a vehicle insert nothing.
NoVehicleRowsAddNoEntry ==
    Resolved =>
        /\ \A k \in DOMAIN ras_results.am_buses :
             \E i \in 1..Len(MatchedRows) :
                /\ RowKey(MatchedRows[i]) = k
                /\ IsTrip(MatchedRows[i], <<"A", "M">>)
                /\ ~NoVehicleCell(MatchedRows[i].Vehicle)
        /\ \A k \in DOMAIN ras_results.pm_buses :
             \E i \in 1..Len(MatchedRows) :
                /\ RowKey(MatchedRows[i]) = k
                /\ IsTrip(MatchedRows[i], <<"P", "M">>)
                /\ ~NoVehicleCell(MatchedRows[i].Vehicle)

\* rows the vehicle loop does not skip
HasVehicle(r) == ~VehicleSkipped(VehicleNumber(r.Vehicle))

Contributors(k, session) ==
    { i \in 1..Len(MatchedRows) :
        /\ RowKey(MatchedRows[i]) = k
        /\ IsTrip(MatchedRows[i], session)
        /\ HasVehicle(MatchedRows[i]) }

AllKeys == {RowKey(MatchedRows[i]) : i \in 1..Len(MatchedRows)}

\* C8: a route is in the AM map exactly when a matched row of it with Trip
\* Type AM carries a vehicle, and its value is the vehicle of such a row;
\* likewise the PM map and Trip Type PM; rows of any other Trip Type put
\* nothing in either map.
TripTypeExtraction ==
    Resolved =>
        /\ DOMAIN ras_results.am_buses = {k \in AllKeys : Contributors(k, <<"A", "M">>) # {}}
        /\ DOMAIN ras_results.pm_buses = {k \in AllKeys : Contributors(k, <<"P", "M">>) # {}}
        /\ \A k \in DOMAIN ras_results.am_buses :
             \E i \in Contributors(k, <<"A", "M">>) :
                ras_results.am_buses[k] = VehicleFull(VehicleNumber(MatchedRows[i].Vehicle))
        /\ \A k \in DOMAIN ras_results.pm_buses :
             \E i \in Contributors(k, <<"P", "M">>) :
                ras_results.pm_buses[k] = VehicleFull(VehicleNumber(MatchedRows[i].Vehicle))

\* C8 witness: two matched rows, one AM with a vehicle and one of another
\* Trip Type with a vehicle; only the AM map has an entry
TripTypeWitness ==
    /\ Resolved
    /\ Len(MatchedRows) = 2
    /\ \E i, j \in 1..2 :
         /\ IsTrip(MatchedRows[i], <<"A", "M">>) /\ HasVehicle(MatchedRows[i])
         /\ IsTrip(MatchedRows[j], <<"M", "I", "D">>) /\ HasVehicle(MatchedRows[j])
    /\ DOMAIN ras_results.am_buses # {}
    /\ DOMAIN ras_results.pm_buses = {}

HistoricalLookup ==
    /\ Resolved
    /\ ras_results.is_current_week = "historical"
    /\ "DateID" \in ras_df_to_filter.cols

DateMatchedIdx == {ras_results.filtered_rasdf.rows[i].idx :
                     i \in 1..Len(ras_results.filtered_rasdf.rows)}

\* C9: in a historical lookup a row whose DateID parses is kept by the date
\* filter exactly when its calendar date is the target date, whatever its
\* time of day or format; a row whose DateID does not parse is not kept.
HistoricalCalendarDateMatch ==
    HistoricalLookup =>
        \A i \in 1..Len(ras_df_to_filter.rows) :
            LET r == ras_df_to_filter.rows[i]
                parsed == ToDatetime(r.DateID)
            IN  IF parsed.ok
                THEN (r.idx \in DateMatchedIdx) <=> (parsed.day = date_obj)
                ELSE r.idx \notin DateMatchedIdx

\* C9 witness: a row with a time of day on the target date is kept, next to a
\* row that does not parse
CalendarDateWitness ==
    /\ HistoricalLookup
    /\ \E i, j \in 1..Len(ras_df_to_filter.rows) :
         /\ ras_df_to_filter.rows[i].DateID.fmt = "mdyt"
         /\ ras_df_to_filter.rows[i].idx \in DateMatchedIdx
         /\ ~ToDatetime(ras_df_to_filter.rows[j].DateID).ok

\* the raw DateID text of a cached cell, astype(str)
RawDateEquals(cell, text) == cell.fmt # "na" /\ cell = text

\* C10: when no DateID of the historical snapshot parses, the date filter
\* keeps the rows whose raw DateID equals the target date as MM/DD/YYYY.
HistoricalStringFallback ==
    (HistoricalLookup /\ \A i \in 1..Len(ras_df_to_filter.rows) :
                            ~ToDatetime(ras_df_to_filter.rows[i].DateID).ok)
        => DateMatchedIdx =
             { ras_df_to_filter.rows[i].idx : i \in
                 { j \in 1..Len(ras_df_to_filter.rows) :
                     RawDateEquals(ras_df_to_filter.rows[j].DateID, FormatMDY(date_obj)) } }

\* a matched row that carries a driver name, and one that carries a phone
CarriesName(r) ==
    "Name" \in ras_results.filtered_data.cols /\ ~r.Name.na /\ Strip(r.Name.s) # <<>>

CarriesPhone(r) ==
    "Phone" \in ras_results.filtered_data.cols /\ ~r.Phone.na
        /\ RemoveNonDigits(r.Phone.s) # <<>>

\* the earliest matched row satisfying Has, 0 when there is none
Earliest(Has(_)) ==
    IF \E i \in 1..Len(MatchedRows) : Has(MatchedRows[i])
    THEN CHOOSE i \in 1..Len(MatchedRows) :
            /\ Has(MatchedRows[i])
            /\ \A j \in 1..(i - 1) : ~Has(MatchedRows[j])
    ELSE 0

\* C11: with matched rows, the driver name is that of the earliest matched
\* row carrying a name, and null only when no matched row carries one;
\* likewise the phone.
FirstDriverFound ==
    (Resolved /\ MatchedRows # <<>>) =>
        /\ ras_results.driver_name =
              IF Earliest(CarriesName) = 0 THEN NoneValue
              ELSE Strip(MatchedRows[Earliest(CarriesName)].Name.s)
        /\ ras_results.driver_phone =
              IF Earliest(CarriesPhone) = 0 THEN NoneValue
              ELSE RemoveNonDigits(MatchedRows[Earliest(CarriesPhone)].Phone.s)

\* the column the date filter needs, or the Route column, is not in the
\* snapshot handed to the resolver
SchemaMismatch ==
    /\ Resolved
    /\ \/ ras_results.date_filter_col \notin ras_df_to_filter.cols
       \/ "Route" \notin ras_df_to_filter.cols

\* C12: when the date column of the lookup or the Route column is absent from
\* the selected snapshot, the resolver returns (the request reaches
\* "resolved") empty AM and PM vehicle maps and null driver name and phone.
SchemaMismatchEmptyResult ==
    SchemaMismatch =>
        /\ ras_results.am_buses = EmptyDict
        /\ ras_results.pm_buses = EmptyDict
        /\ ras_results.driver_name = NoneValue
        /\ ras_results.driver_phone = NoneValue

\* C12 witness: a historical lookup in a snapshot that has rows for the route
\* but no DateID column
SchemaMismatchWitness ==
    /\ SchemaMismatch
    /\ ras_df_to_filter.rows # <<>>
    /\ "Route" \in ras_df_to_filter.cols
    /\ ras_results.date_filter_col = "DateID"
    /\ \E i \in 1..Len(ras_df_to_filter.rows) :
          RouteMatches(ras_df_to_filter.rows[i].Route, route_input)
    /\ ras_results.am_buses = EmptyDict
    /\ ras_results.driver_name = NoneValue

(***************************************************************************)
(* Properties of the normaliser (checked under SpecVehicle).               *)
(***************************************************************************)
\* the raw text, trimmed and without a trailing ".0"
Cleaned(cell) ==
    LET t == Strip(StrOf(cell))
    IN  IF Len(t) >= 2 /\ t[Len(t) - 1] = "." /\ t[Len(t)] = "0"
        THEN SubSeq(t, 1, Len(t) - 2) ELSE t

AllDigits(t) == \A i \in 1..Len(t) : t[i] \in Digits

\* C5: a Vehicle# whose cleaned text is exactly 3 digits is stored as "NT0"
\* followed by them, one whose cleaned text is exactly 4 digits as "NT"
\* followed by them; such a value is never skipped.
ConformingVehicleNormalized ==
    LET c == Cleaned(vn_cell)
    IN  (vn_pc # "row" /\ AllDigits(c) /\ Len(c) \in {3, 4})
            => /\ vn_pc = "mapped"
               /\ Len(c) = 3 => vehicle_full = <<"N", "T", "0">> \o c
               /\ Len(c) = 4 => vehicle_full = <<"N", "T">> \o c

\* C5 witness: "123" was stored as "NT0123"
ConformingVehicleWitness ==
    /\ vn_pc = "mapped"
    /\ vn_cell = Txt(<<"1", "2", "3">>)
    /\ vehicle_full = <<"N", "T", "0", "1", "2", "3">>

\* C6: a Vehicle# whose cleaned text is not exactly 3 or 4 digits is stored as
\* that cleaned text, unchanged.
NonConformingVehiclePassThrough ==
    LET c == Cleaned(vn_cell)
    IN  (vn_pc = "mapped" /\ ~(AllDigits(c) /\ Len(c) \in {3, 4}))
            => vehicle_full = c


(***************************************************************************)
(* Properties of the annotation (checked under SpecAnnotate).              *)
(***************************************************************************)
AnDone == an_pc = "done"

\* the instant of trace point i (annotation leaves dateTime and speed alone)
PointTime(i) == ParseTimestamp(log_records_geojson[i].dateTime)

PointSpeed(i) ==
    IF log_records_geojson[i].speed.kind = "num" THEN log_records_geojson[i].speed.v ELSE 0

HasWindow(exc) == ParseTimestamp(exc.start_time).ok /\ ParseTimestamp(exc.end_time).ok

WindowLo(exc) ==
    IF ParseTimestamp(exc.start_time).t <= ParseTimestamp(exc.end_time).t
    THEN ParseTimestamp(exc.start_time).t ELSE ParseTimestamp(exc.end_time).t

WindowHi(exc) ==
    IF ParseTimestamp(exc.start_time).t <= ParseTimestamp(exc.end_time).t
    THEN ParseTimestamp(exc.end_time).t ELSE ParseTimestamp(exc.start_time).t

\* the trace points inside the window of exc, bounds included
PointsInside(exc) ==
    {i \in 1..Len(log_records_geojson) :
        /\ PointTime(i).ok
        /\ WindowLo(exc) <= PointTime(i).t
        /\ PointTime(i).t <= WindowHi(exc)}

\* the exceptions of the list whose window covers trace point i
Covering(i) ==
    {j \in 1..Len(raw_exceptions) : HasWindow(raw_exceptions[j]) /\ i \in PointsInside(raw_exceptions[j])}

NamesSpeeding(rule_name) == Contains(Lower(rule_name), <<"s", "p", "e", "e", "d", "i", "n", "g">>)

NamesIdling(rule_name) == Contains(Lower(rule_name), <<"i", "d", "l">>)

\* Speeding above any other named exception above Idling
Rank(rule_name) ==
    IF NamesSpeeding(rule_name) THEN 3 ELSE IF NamesIdling(rule_name) THEN 1 ELSE 2

\* C2: a trace point lying inside one or more exception windows is tagged
\* with one of the covering exceptions of the highest rank (Speeding above
\* any other exception above Idling), whatever the order of the list, and it
\* carries the details of an exception of that name.
ExceptionPriority ==
    AnDone =>
        \A i \in 1..Len(log_records_geojson) :
            (PointTime(i).ok /\ Covering(i) # {}) =>
                \E j \in Covering(i) :
                    /\ \A k \in Covering(i) :
                          Rank(raw_exceptions[k].rule_name) <= Rank(raw_exceptions[j].rule_name)
                    /\ log_records_geojson[i].has_exc
                    /\ log_records_geojson[i].exception_type = raw_exceptions[j].rule_name
                    /\ log_records_geojson[i].exception_details.rule = raw_exceptions[j].rule_name

\* a point covered by Idling, Speeding and Seatbelt windows, in that order of
\* the list, is tagged Speeding
ExceptionPriorityWitness ==
    /\ AnDone
    /\ Len(raw_exceptions) = 3
    /\ raw_exceptions[1].rule_name = RuleIdling
    /\ raw_exceptions[2].rule_name = RuleSpeeding
    /\ raw_exceptions[3].rule_name = RuleSeatbelt
    /\ Len(log_records_geojson) = 1
    /\ Covering(1) = {1, 2, 3}
    /\ log_records_geojson[1].exception_type = RuleSpeeding

MaxOf(S) == CHOOSE x \in S : \A y \in S : y <= x

\* the whole number nearest to kph * 0.621371
NearestMph(kph) ==
    CHOOSE n \in 0..(kph + 1) :
        /\ 2 * (kph * 621371 - n * 1000000) <= 1000000
        /\ 2 * (n * 1000000 - kph * 621371) <= 1000000

WithWindow(excs) == SelectSeq(excs, HasWindow)

\* C3: every exception with a window is processed, and for each one whose
\* rule name contains "speeding" in any case, the maximum speed of its
\* details is the mph rounding of the greatest speed among exactly the trace
\* points with start <= timestamp <= end; with no point inside, no maximum
\* speed is appended.
SpeedingMaxSpeed ==
    (AnDone /\ raw_exceptions # <<>> /\ \E i \in 1..Len(log_records_geojson) : PointTime(i).ok) =>
        /\ Len(processed_exceptions) = Len(WithWindow(raw_exceptions))
        /\ \A k \in 1..Len(WithWindow(raw_exceptions)) :
              LET exc == WithWindow(raw_exceptions)[k]
                  details == processed_exceptions[k].details
              IN  NamesSpeeding(exc.rule_name) =>
                    IF PointsInside(exc) = {} THEN ~details.has_max
                    ELSE /\ details.has_max
                         /\ details.max_mph =
                               NearestMph(MaxOf({PointSpeed(i) : i \in PointsInside(exc)}))
        /\ \A i \in 1..Len(log_records_geojson) :
              (PointTime(i).ok /\ log_records_geojson[i].exception_type # Dash) =>
                 \E k \in 1..Len(processed_exceptions) :
                    log_records_geojson[i].exception_details = processed_exceptions[k].details

\* 40 and 72 kph inside the window (72 on its closing bound), 90 kph outside:
\* the speeding details say 45 MPH, and the points inside carry them
SpeedingMaxSpeedWitness ==
    /\ AnDone
    /\ Len(raw_exceptions) = 1
    /\ raw_exceptions[1].rule_name = RuleSpeeding
    /\ \E i, j, k \in 1..Len(log_records_geojson) :
          /\ i \in PointsInside(raw_exceptions[1]) /\ PointSpeed(i) = 40
          /\ j \in PointsInside(raw_exceptions[1]) /\ PointSpeed(j) = 72
          /\ PointTime(j).t = WindowHi(raw_exceptions[1])
          /\ \A m \in PointsInside(raw_exceptions[1]) : PointSpeed(m) <= 72
          /\ PointTime(k).ok /\ k \notin PointsInside(raw_exceptions[1]) /\ PointSpeed(k) = 90
          /\ log_records_geojson[j].exception_details.has_max
          /\ log_records_geojson[j].exception_details.max_mph = 45
          /\ log_records_geojson[k].exception_type = Dash


(***************************************************************************)
(* Properties of the stop extraction (checked under SpecOpt).              *)
(***************************************************************************)
OptDone == opt_pc = "done"

LocationsOf(session_type) == IF session_type = "AM" THEN am_locations_df ELSE pm_locations_df

\* the rows left for a session after the filters and the deduplication
Surviving(session_type) ==
    LET rows == StopRows(optdf, session_type)
    IN  {rows[i] : i \in 1..Len(rows)}

SchoolRowsOf(surviving, route) ==
    {row \in surviving : row.route = route /\ row.seg_no = Coord(0)}

\* a sequence-0 row of the dump that no filter of the session removes
ValidSchoolRow(row, session_type) ==
    /\ ("am_pm" \in optdf.cols => InSession(row, session_type))
    /\ ("address" \in optdf.cols => ~ContainsNoCase(row.address, SeePattern))
    /\ (SchoolCol \in optdf.cols => ~ContainsNoCase(row.school, DismissPattern))
    /\ row.pupil_lat.kind = "num" /\ row.pupil_lon.kind = "num"
    /\ row.seg_no = Coord(0)

\* C4: in each session's result, the school-location map of a route has one
\* entry per surviving sequence-0 row of the route, keyed by that row's own
\* label and holding its coordinates (and its cleaned school name); so n such
\* rows give n entries, and for two valid sequence-0 rows of the route with
\* different school names the map has a separate entry for each name.
SchoolStopKeyUniqueness ==
    (OptDone /\ "seg_no" \in optdf.cols) =>
        \A session_type \in {"AM", "PM"} :
          LET surviving == Surviving(session_type)
          IN
            \A route \in DOMAIN LocationsOf(session_type).routes :
                LET entry == LocationsOf(session_type).routes[route]
                    school_rows == SchoolRowsOf(surviving, route)
                IN  /\ DOMAIN entry.schools = {row.idx : row \in school_rows}
                    /\ Cardinality(DOMAIN entry.schools) = Cardinality(school_rows)
                    /\ \A row \in school_rows :
                          /\ entry.schools[row.idx] = <<row.pupil_lat.v, row.pupil_lon.v>>
                          /\ SchoolCol \in optdf.cols =>
                                entry.school_names[row.idx] = CleanedSchoolName(row)
                    /\ \A i, j \in 1..Len(optdf.rows) :
                          LET a == optdf.rows[i]
                              b == optdf.rows[j]
                          IN  (/\ a.route = route /\ b.route = route
                               /\ ValidSchoolRow(a, session_type)
                               /\ ValidSchoolRow(b, session_type)
                               /\ SchoolCol \in optdf.cols
                               /\ a.school # b.school) =>
                                  \E m, n \in 1..Len(optdf.rows) :
                                      /\ optdf.rows[m].school = a.school
                                      /\ optdf.rows[n].school = b.school
                                      /\ optdf.rows[m].route = route
                                      /\ optdf.rows[n].route = route
                                      /\ optdf.rows[m].idx # optdf.rows[n].idx
                                      /\ {optdf.rows[m].idx, optdf.rows[n].idx}
                                            \subseteq DOMAIN entry.schools

\* route B1 with two sequence-0 rows, schools "PS1 ARRIVE" and "PS2", and a
\* third sequence-0 row repeating the first: two school stops, both names kept
SchoolStopKeyWitness ==
    /\ OptDone
    /\ Len(optdf.rows) = 3
    /\ \A i \in 1..3 : ValidSchoolRow(optdf.rows[i], "AM") /\ optdf.rows[i].route = RouteB1
    /\ optdf.rows[1].school = PS1Arrive
    /\ optdf.rows[2].school = PS2
    /\ optdf.rows[3].school = PS1Arrive
    /\ optdf.cols = OptCols
    /\ RouteB1 \in DOMAIN am_locations_df.routes
    /\ DOMAIN am_locations_df.routes[RouteB1].schools = {0, 1}
    /\ am_locations_df.routes[RouteB1].school_names[0] = PS1
    /\ am_locations_df.routes[RouteB1].school_names[1] = PS2


OptionalCols == {"pupil_id_no", "sess_beg", SchoolCol}

OptReturned == opt_pc \in {"done", "raised"}

\* the dump lacks exactly one optional column
MissingOptionalColumn ==
    OptReturned /\ \E c \in OptionalCols : optdf.cols = OptCols \ {c}

\* what the session would yield from the same rows with every column present
WithAllColumns(session_type) ==
    FrameOrEmpty(ProcessOptdump([optdf EXCEPT !.cols = OptCols], session_type,
                                IF session_type = "AM" THEN am_routes_to_buses
                                ELSE pm_routes_to_buses))

\* C13: with one optional column absent (pupil id, session-begin time, school
\* code/name) the extraction does not fail, and each session has the routes,
\* the pickup stops and the school stops (keys and coordinates) it has with
\* the column present.
OptionalColumnsDegrade ==
    MissingOptionalColumn =>
        /\ opt_pc = "done"
        /\ \A session_type \in {"AM", "PM"} :
              /\ DOMAIN LocationsOf(session_type).routes
                    = DOMAIN WithAllColumns(session_type).routes
              /\ \A route \in DOMAIN LocationsOf(session_type).routes :
                    /\ LocationsOf(session_type).routes[route].pickups
                          = WithAllColumns(session_type).routes[route].pickups
                    /\ LocationsOf(session_type).routes[route].schools
                          = WithAllColumns(session_type).routes[route].schools


\* a row of the dump that no filter of the session removes
ValidRow(row, session_type) ==
    /\ ("am_pm" \in optdf.cols => InSession(row, session_type))
    /\ ("address" \in optdf.cols => ~ContainsNoCase(row.address, SeePattern))
    /\ (SchoolCol \in optdf.cols => ~ContainsNoCase(row.school, DismissPattern))
    /\ row.pupil_lat.kind = "num" /\ row.pupil_lon.kind = "num"
    /\ row.seg_no.kind = "num"

ValidRows(session_type) ==
    {optdf.rows[i] : i \in {j \in 1..Len(optdf.rows) : ValidRow(optdf.rows[j], session_type)}}

SameTriple(a, b) ==
    a.route = b.route /\ a.pupil_id_no = b.pupil_id_no /\ a.school = b.school

\* C14: in a dump that has the route, pupil id, school and sequence columns,
\* the rows left for a session are valid rows, exactly one for each (route,
\* pupil id, school) triple found among the valid rows, and the one left has
\* the lowest sequence number of its triple.
Deduplication ==
    (OptDone /\ optdf.cols = OptCols) =>
        \A session_type \in {"AM", "PM"} :
            LET surviving == Surviving(session_type)
                valid == ValidRows(session_type)
            IN  /\ surviving \subseteq valid
                /\ \A row \in valid :
                      LET same == {other \in valid : SameTriple(row, other)}
                      IN  /\ Cardinality(same \cap surviving) = 1
                          /\ \A kept \in same \cap surviving :
                                \A other \in same : kept.seg_no.v <= other.seg_no.v

\* C14 witness: pupil 555 of school PS1 is listed at sequence 2 and then at
\* sequence 1; the AM result has the one pickup at sequence 1
DeduplicationWitness ==
    /\ OptDone
    /\ optdf.cols = OptCols
    /\ Len(optdf.rows) >= 2
    /\ SameTriple(optdf.rows[1], optdf.rows[2])
    /\ ValidRow(optdf.rows[1], "AM") /\ ValidRow(optdf.rows[2], "AM")
    /\ optdf.rows[1].seg_no = Coord(2)
    /\ optdf.rows[2].seg_no = Coord(1)
    /\ RouteB1 \in DOMAIN am_locations_df.routes
    /\ DOMAIN am_locations_df.routes[RouteB1].pickups = {1}
    /\ am_locations_df.routes[RouteB1].student_ids[1] = Pupil(555)


RoutesToBusesOf(session_type) ==
    IF session_type = "AM" THEN am_routes_to_buses ELSE pm_routes_to_buses

RoutesWithStops(session_type) == {row.route : row \in Surviving(session_type)}

\* C15: every route of a session's result is a key of that session's vehicle
\* map and carries the vehicle the map holds for that route; a route that has
\* stops in the session but no entry in the session's map is not in the result.
VehicleJoin ==
    OptDone =>
        \A session_type \in {"AM", "PM"} :
            LET routes == LocationsOf(session_type).routes
                routes_to_buses == RoutesToBusesOf(session_type)
            IN  /\ \A r \in DOMAIN routes :
                      /\ r \in DOMAIN routes_to_buses
                      /\ routes[r].vehicle = routes_to_buses[r]
                /\ \A r \in RoutesWithStops(session_type) :
                      r \notin DOMAIN routes_to_buses => r \notin DOMAIN routes

\* C15 witness: routes B1 and B2 have stops in both sessions, the AM map
\* knows B1 only and the PM map is empty; the AM result is B1 with its
\* vehicle and the PM result has no route
VehicleJoinWitness ==
    /\ OptDone
    /\ am_routes_to_buses = BusB1
    /\ pm_routes_to_buses = EmptyDict
    /\ RoutesWithStops("AM") = {RouteB1, RouteB2}
    /\ RoutesWithStops("PM") = {RouteB1, RouteB2}
    /\ DOMAIN am_locations_df.routes = {RouteB1}
    /\ am_locations_df.routes[RouteB1].vehicle = BusB1[RouteB1]
    /\ DOMAIN pm_locations_df.routes = {}


(***************************************************************************)
(* Properties of the trace formatting (checked under SpecTrace).           *)
(***************************************************************************)
GpsDone == gps_pc = "done"

\* a point with numeric latitude and longitude and a timestamp that parses
WellFormedPoint(row) ==
    /\ "latitude" \in vehicle_data_df.cols /\ row.latitude.kind = "num"
    /\ "longitude" \in vehicle_data_df.cols /\ row.longitude.kind = "num"
    /\ "dateTime" \in vehicle_data_df.cols /\ row.dateTime.kind \in {"utc", "naive", "offset"}

WellFormedPoints == SelectSeq(vehicle_data_df.rows, WellFormedPoint)

\* C16: the features returned are, in the order of the frame, the points of
\* the frame whose latitude and longitude are numeric and whose timestamp
\* parses: as many features as such points, the i-th feature having the
\* coordinates of the i-th such point.
TraceIsWellFormedSubsequence ==
    GpsDone =>
        /\ Len(trace_features) = Len(WellFormedPoints)
        /\ \A i \in 1..Len(trace_features) :
              trace_features[i].coordinates =
                  <<WellFormedPoints[i].longitude, WellFormedPoints[i].latitude>>

SourceSpeeds ==
    {vehicle_data_df.rows[i].speed : i \in 1..Len(vehicle_data_df.rows)}

\* C17: every feature returned has a numeric speed, and when no point of the
\* frame has one (the column is absent, or every value is null, NaN or a
\* text) every feature has the speed 0.
TraceSpeedDefault ==
    GpsDone =>
        \A i \in 1..Len(trace_features) :
            /\ trace_features[i].speed.kind = "num"
            /\ ("speed" \notin vehicle_data_df.cols \/ \A speed \in SourceSpeeds : speed.kind # "num")
                  => trace_features[i].speed = Num(0)


(***************************************************************************)
(* Further properties of the annotation (checked under SpecAnnotate).      *)
(***************************************************************************)
\* the exceptions with a window of the given type that covers trace point i
CoveringOfType(i, type) == {j \in Covering(i) : raw_exceptions[j].rule_name = type}

\* C18: every point of the returned list carries exception_type and
\* exception_details; a point inside no exception window (its timestamp
\* does not parse, or no exception with parsable bounds covers it) has "--"
\* for both; a point with another type lies inside a window of that type.
AnnotationDefault ==
    AnDone =>
        \A i \in 1..Len(annotated_log_records) :
            LET point == annotated_log_records[i]
            IN  /\ point.has_exc
                /\ (~PointTime(i).ok \/ Covering(i) = {}) =>
                      /\ point.exception_type = Dash
                      /\ point.exception_details = DashDetails
                /\ point.exception_type # Dash =>
                      /\ PointTime(i).ok
                      /\ CoveringOfType(i, point.exception_type) # {}

\* C18 witness: of three points, one without a parsable timestamp and one
\* outside the window have "--", and one inside the window has its type
AnnotationDefaultWitness ==
    /\ AnDone
    /\ Len(raw_exceptions) = 1
    /\ HasWindow(raw_exceptions[1])
    /\ \E i, j, k \in 1..Len(annotated_log_records) :
          /\ ~PointTime(i).ok
          /\ annotated_log_records[i].has_exc
          /\ annotated_log_records[i].exception_type = Dash
          /\ PointTime(j).ok /\ Covering(j) = {}
          /\ annotated_log_records[j].exception_type = Dash
          /\ annotated_log_records[j].exception_details = DashDetails
          /\ Covering(k) = {1}
          /\ annotated_log_records[k].exception_type = raw_exceptions[1].rule_name

Reversed(exc) ==
    HasWindow(exc) /\ ParseTimestamp(exc.start_time).t > ParseTimestamp(exc.end_time).t

\* C19: every exception the annotation uses comes from a raw exception whose
\* start and end both parse and has start <= end, the two bounds being those
\* of the raw exception in ascending order; a tagged point is covered by such
\* an exception; and a point between the bounds of an exception given with
\* start after end is tagged.
ExceptionPreprocessing ==
    AnDone =>
        /\ \A k \in 1..Len(processed_exceptions) :
              /\ processed_exceptions[k].start <= processed_exceptions[k].end
              /\ \E j \in 1..Len(raw_exceptions) :
                    /\ HasWindow(raw_exceptions[j])
                    /\ processed_exceptions[k].start = WindowLo(raw_exceptions[j])
                    /\ processed_exceptions[k].end = WindowHi(raw_exceptions[j])
                    /\ processed_exceptions[k].type = raw_exceptions[j].rule_name
        /\ Len(processed_exceptions) <=
              Cardinality({j \in 1..Len(raw_exceptions) : HasWindow(raw_exceptions[j])})
        /\ \A i \in 1..Len(annotated_log_records) :
              annotated_log_records[i].exception_type # Dash =>
                  \E j \in 1..Len(raw_exceptions) :
                      /\ HasWindow(raw_exceptions[j])
                      /\ raw_exceptions[j].rule_name = annotated_log_records[i].exception_type
                      /\ i \in PointsInside(raw_exceptions[j])
        /\ \A j \in 1..Len(raw_exceptions) :
              Reversed(raw_exceptions[j]) =>
                  \A i \in PointsInside(raw_exceptions[j]) :
                      annotated_log_records[i].exception_type # Dash

\* C19 witness: an exception given with start after end is used with the
\* bounds in ascending order and tags a point between them
ExceptionPreprocessingWitness ==
    /\ AnDone
    /\ Len(raw_exceptions) = 1
    /\ Reversed(raw_exceptions[1])
    /\ Len(processed_exceptions) = 1
    /\ processed_exceptions[1].start = ParseTimestamp(raw_exceptions[1].end_time).t
    /\ processed_exceptions[1].end = ParseTimestamp(raw_exceptions[1].start_time).t
    /\ \E i \in PointsInside(raw_exceptions[1]) :
          annotated_log_records[i].exception_type = raw_exceptions[1].rule_name

\* C20: the call leaves the list of trace points and the list of raw
\* exceptions passed to it as they were before the call.
AnnotationLeavesArguments ==
    [][(an_pc = "call" /\ an_pc' = "done") =>
          /\ log_records_geojson' = log_records_geojson
          /\ raw_exceptions' = raw_exceptions]_vars


(***************************************************************************)
(* Further properties of the resolver (checked under Spec).                *)
(***************************************************************************)
\* C26: when a request has resolved its vehicles, the snapshot it copied is
\* the current one exactly if the resolver matched by the current-week
\* strategy, also when the day changed between the two readings of today.
SnapshotAndStrategyAgree ==
    Resolved => (use_current_ras <=> ras_results.is_current_week = "current")

\* C27: no entry of the AM or PM vehicle map is the empty text.
NoEmptyVehicleId ==
    Resolved =>
        /\ \A k \in DOMAIN ras_results.am_buses : ras_results.am_buses[k] # <<>>
        /\ \A k \in DOMAIN ras_results.pm_buses : ras_results.pm_buses[k] # <<>>

\* the vehicles of the matched rows of a session that carry one
VehiclesOf(session) ==
    {VehicleFull(VehicleNumber(MatchedRows[i].Vehicle)) :
        i \in {j \in 1..Len(MatchedRows) :
                  IsTrip(MatchedRows[j], session) /\ HasVehicle(MatchedRows[j])}}

\* C28: when a matched row of Trip Type AM (PM) carries a vehicle, the
\* lookup of the AM (PM) vehicle by the requested route finds the vehicle of
\* such a row.
LookupFindsMatchedVehicle ==
    Resolved =>
        /\ VehiclesOf(<<"A", "M">>) # {} => am_bus_number \in VehiclesOf(<<"A", "M">>)
        /\ VehiclesOf(<<"P", "M">>) # {} => pm_bus_number \in VehiclesOf(<<"P", "M">>)


(***************************************************************************)
(* Further properties of the stop extraction (checked under SpecOpt).      *)
(***************************************************************************)
PickupRowsOf(surviving, route) ==
    {row \in surviving : row.route = route /\ row.seg_no.kind = "num" /\ row.seg_no.v # 0}

\* C29: for every session and every route of its result, the pickup stops
\* of the route are as many as the rows of the route that survive the
\* filters and the deduplication with a sequence other than 0.
NoPickupLost ==
    (OptDone /\ optdf.cols = OptCols) =>
        \A session_type \in {"AM", "PM"} :
            LET surviving == Surviving(session_type)
                routes == LocationsOf(session_type).routes
            IN  \A r \in DOMAIN routes :
                    Cardinality(DOMAIN routes[r].pickups)
                        = Cardinality(PickupRowsOf(surviving, r))


(***************************************************************************)
(* Properties of the snapshot cache (checked under SpecCache).             *)
(***************************************************************************)
PublishedCurrent == {EmptyFrame} \cup {LoadCurrent(sheet) : sheet \in CacheCurrentSheets}

PublishedHistorical == {EmptyFrame} \cup {LoadHistorical(sheet) : sheet \in CacheHistoricalSheets}

\* C21: no request is inside its copy while a refresh is inside its
\* replacement, and the copy a request works with is the initial empty frame
\* or the complete frame of one fetch of the snapshot it chose.
CacheMutualExclusion ==
    \A t \in RequestThreads :
        /\ ~(req_pc[t] = "copy" /\ rf_pc = "replace")
        /\ req_pc[t] = "filter" =>
              req_ras_df_to_filter[t] \in
                  (IF req_use_current_ras[t] THEN PublishedCurrent ELSE PublishedHistorical)

\* C21 witness: a request is copying the loaded current snapshot while a
\* refresh with a newer frame waits for the lock
CacheMutualExclusionWitness ==
    /\ rf_pc = "loaded"
    /\ rf_target = "current"
    /\ temp_df # current_ras_df
    /\ current_ras_df # EmptyFrame
    /\ \E t \in RequestThreads :
          /\ req_pc[t] = "copy"
          /\ req_use_current_ras[t]
          /\ ras_data_lock = t

\* C22: the lock is held by the refresh exactly while it replaces a
\* snapshot and by a request exactly while it copies one (not while a sheet
\* is fetched or parsed, nor while a request filters), and the step that
\* ends the copy or the replacement frees the lock, also when the copy fails.
LockScope ==
    /\ [](/\ ras_data_lock = Refresher <=> rf_pc = "replace"
          /\ \A t \in RequestThreads : ras_data_lock = t <=> req_pc[t] = "copy")
    /\ [][/\ (ras_data_lock = Refresher /\ rf_pc' # rf_pc) => ras_data_lock' = LockFree
          /\ \A t \in RequestThreads :
                (ras_data_lock = t /\ req_pc'[t] # req_pc[t]) => ras_data_lock' = LockFree]_vars

\* C22 witness: while the job fetches the sheet and one request filters,
\* another request holds the lock for its copy
LockScopeWitness ==
    /\ rf_pc = "fetch"
    /\ startup = "done"
    /\ \E t, u \in RequestThreads :
          /\ req_pc[t] = "filter"
          /\ req_pc[u] = "copy"
          /\ ras_data_lock = u

\* C23: under fairness, the content of either source sheet is eventually
\* the content of the cached snapshot, unless the sheet is edited again first.
PeriodicRefresh ==
    /\ \A sheet \in CacheCurrentSheets :
          (startup = "done" /\ sheet_current = sheet)
              ~> (current_ras_df = LoadCurrent(sheet) \/ sheet_current # sheet)
    /\ \A sheet \in CacheHistoricalSheets :
          (startup = "done" /\ sheet_historical = sheet)
              ~> (historical_ras_df = LoadHistorical(sheet) \/ sheet_historical # sheet)

\* C30: a refresh that fails leaves both cached snapshots as they were; a
\* cached snapshot changes only in the replacement step of a refresh, to the
\* frame that refresh built from a fetch that completed.
FailedRefreshKeepsCache ==
    /\ [][(rf_pc = "fetch" /\ rf_pc' = "failed")
            => UNCHANGED <<current_ras_df, historical_ras_df>>]_vars
    /\ [][(rf_pc \in {"failed"} /\ rf_pc' # rf_pc)
            => UNCHANGED <<current_ras_df, historical_ras_df>>]_vars
    /\ [][(current_ras_df' # current_ras_df)
            => /\ rf_pc = "replace" /\ rf_target = "current"
               /\ current_ras_df' = temp_df
               /\ temp_df \in PublishedCurrent]_vars
    /\ [][(historical_ras_df' # historical_ras_df)
            => /\ rf_pc = "replace" /\ rf_target = "historical"
               /\ historical_ras_df' = temp_df
               /\ temp_df \in PublishedHistorical]_vars

\* C30 witness: the sheet was edited, the refresh after the edit failed, and
\* a request works with the snapshot loaded before
FailedRefreshWitness ==
    /\ rf_pc = "failed"
    /\ rf_target = "current"
    /\ startup = "done"
    /\ sheet_current = EditedCurrentSheet
    /\ current_ras_df = LoadCurrent(FixedCurrentSheet)
    /\ \E t \in RequestThreads :
          /\ req_pc[t] = "filter"
          /\ req_use_current_ras[t]
          /\ req_ras_df_to_filter[t] = LoadCurrent(FixedCurrentSheet)


(***************************************************************************)
(* Properties of steps 3 to 8 of /get_map (checked under SpecMap).         *)
(***************************************************************************)
ScheduledBus(s) ==
    DictGet(IF s = "AM" THEN gm.am_routes_to_buses ELSE gm.pm_routes_to_buses, gm.route_input)

\* what the dump alone decides: whether the stop extraction raises, and the
\* stops of a session
OptProcessingRaises ==
    \E s \in Sessions :
        ProcessOptdump(sources.opt.df, s,
                       IF s = "AM" THEN gm.am_routes_to_buses ELSE gm.pm_routes_to_buses).kind
            = "raise"

StopsFromDump(s) ==
    IF Truthy(ScheduledBus(s))
    THEN FormatStops(FrameOrEmpty(ProcessOptdump(sources.opt.df, s,
             IF s = "AM" THEN gm.am_routes_to_buses ELSE gm.pm_routes_to_buses)))
    ELSE {}

\* what the telemetry alone decides: the trace of a session
TraceFromTelemetry(s) ==
    IF Truthy(ScheduledBus(s)) THEN FormatGpsTrace(sources[s].df) ELSE <<>>

ScheduleFieldsKept ==
    /\ response.driver_name = gm.driver_name
    /\ response.driver_phone = gm.driver_phone
    /\ \A s \in Sessions : response.map_data[s].vehicle_number = ScheduledBus(s)

\* C24: each source is asked at most once; when the dump fetch fails the
\* response is not an error, carries the schedule's vehicle and driver
\* fields and, per session, the trace the telemetry alone gives; when the
\* telemetry of a session comes back empty the response is an error only
\* if it is one for the same dump with telemetry, and it carries the
\* schedule's fields and the stops the dump alone gives.
DegradationOnFailedSource ==
    map_pc # "off" =>
        /\ fetches.opt <= 1 /\ fetches.AM <= 1 /\ fetches.PM <= 1
        /\ map_pc = "done" =>
              /\ ~sources.opt.ok =>
                    /\ response.status = 200
                    /\ response.opt_data = <<>>
                    /\ ScheduleFieldsKept
                    /\ \A s \in Sessions : response.map_data[s].trace = TraceFromTelemetry(s)
              /\ \A s \in Sessions :
                    sources[s].df.rows = <<>> =>
                        /\ response.status = (IF OptProcessingRaises THEN 500 ELSE 200)
                        /\ response.status = 200 =>
                              /\ ScheduleFieldsKept
                              /\ response.map_data[s].stops = StopsFromDump(s)

\* C24 witness: the AM telemetry fetch failed and the response still has
\* the AM vehicle, the driver and a school stop and a pickup from the dump
DegradationWitness ==
    /\ map_pc = "done"
    /\ sources.AM = TelemetryFailed
    /\ fetches.AM = 1
    /\ response.status = 200
    /\ response.map_data["AM"].vehicle_number = BusB1[RouteB1]
    /\ response.map_data["AM"].trace = <<>>
    /\ \E a, b \in response.map_data["AM"].stops : a.type = "student" /\ b.type = "school"

\* the other case of C24: the dump fetch failed and the response has a trace
DumpFailureWitness ==
    /\ map_pc = "done"
    /\ ~sources.opt.ok
    /\ fetches.opt = 1
    /\ response.status = 200
    /\ Len(response.map_data["AM"].trace) = 2
    /\ response.map_data["AM"].stops = {}


(***************************************************************************)
(* Properties of parse_timestamp (checked under SpecParse).                *)
(***************************************************************************)
InstantOf(dt) == <<dt.sec - 3600 * dt.off, dt.micro, dt.nano>>

PtAccepted == pt_pc \in {"parsed", "rendered", "again"}

\* the result is labelled UTC and is the instant the argument stands for,
\* a value without offset read as UTC and another offset converted
CanonicalUtc ==
    /\ pt_dt.dt.aware
    /\ pt_dt.dt.off = 0
    /\ InstantOf(pt_dt.dt) = pt_input.instant

\* C25: the result of an accepted value is a UTC instant, and
\* parsing its ISO-8601 rendering, with +00:00 or with Z, returns an equal instant.
TimestampRoundTrip ==
    /\ PtAccepted => CanonicalUtc
    /\ pt_pc = "again" => pt_again.ok /\ InstantOf(pt_again.dt) = InstantOf(pt_dt.dt)


====
